---- MODULE Spec2Model ----
(***************************************************************************)
(* calsim_toolkit: the tidy / wide / condense table formats, their         *)
(* validators (tools/validation.py), the transforms between them           *)
(* (tools/transform.py), the DataFrame accessor (calsim_toolkit.py) and    *)
(* the statistics built on them (analysis/stats.py).                       *)
(*                                                                         *)
(* Representation.                                                         *)
(*  - A Python string is a sequence of tokens: a token is a separator      *)
(*    ("/" or " ") or a word holding no separator.  "/A/X/" is             *)
(*    <<"/","A","/","X","/">>.  str.split and str.format work on the       *)
(*    tokens, so splitting and joining are computed, not assumed.          *)
(*  - A pandas DataFrame is a record                                       *)
(*      names : the column axis' level names (df.columns.names)            *)
(*      cols  : the column labels, each a tuple with one string per level  *)
(*      iname : the name of the row index (df.index.name)                  *)
(*      ikind : the type of the row index ("range", "datetime", "month")   *)
(*      index : the row index                                              *)
(*      data  : the rows, each a tuple of cells aligned with cols          *)
(*    A timestamp is the ordinal of a month end (1 = January of the first  *)
(*    year); a numeric cell is an integer, NaN a reserved integer.         *)
(*  - Column order of a pivoted table is first appearance, not pandas'     *)
(*    lexicographic order; row order of the index is ascending as in       *)
(*    pandas.  Tables are compared as sets of rows / cells.                *)
(***************************************************************************)
EXTENDS Integers, Sequences, FiniteSets, TLC

VARIABLES cur, arg, parg, op, pop, status, ret, kw, miss, held

vars == <<cur, arg, parg, op, pop, status, ret, kw, miss, held>>

(***************************************************************************)
(* Strings                                                                 *)
(***************************************************************************)
S(w) == <<w>>

None == <<"<None>">>

NaN == -999999

Sentinel == -901

Range(s) == {s[i] : i \in 1..Len(s)}

RECURSIVE SplitOn(_, _)
SplitOn(s, sep) ==
    IF \E i \in 1..Len(s) : s[i] = sep
    THEN LET i == CHOOSE k \in 1..Len(s) :
                      s[k] = sep /\ \A j \in 1..(k - 1) : s[j] # sep
         IN  <<SubSeq(s, 1, i - 1)>> \o SplitOn(SubSeq(s, i + 1, Len(s)), sep)
    ELSE <<s>>

NonEmptyStr(w) == w # <<>>

SplitWhite(s) == SelectSeq(SplitOn(s, " "), NonEmptyStr)

Fmt(x) == IF x = None THEN S("None") ELSE x

(***************************************************************************)
(* DataFrames                                                              *)
(***************************************************************************)
NoDF == [names |-> <<>>, cols |-> <<>>, iname |-> None, ikind |-> "none",
         index |-> <<>>, data |-> <<>>]

nlevels(df) == Len(df.names)

Rows(df) == 1..Len(df.data)

Cols(df) == 1..Len(df.cols)

\* set(df.columns) of a single-level column axis: the column names
ColumnSet(df) == {df.cols[j][1] : j \in Cols(df)}

HasCol(df, name) == nlevels(df) = 1 /\ name \in ColumnSet(df)

ColPos(df, name) == CHOOSE j \in Cols(df) : df.cols[j][1] = name

Cell(df, i, name) == df.data[i][ColPos(df, name)]

(***************************************************************************)
(* tools/validation.py                                                     *)
(***************************************************************************)
TidyValCol(df) ==
    {S("DateTime"), S("Pathname"), S("Units"), S("Data Type"), S("Value")}
      \cup (IF S("Study") \in ColumnSet(df) THEN {S("Study")} ELSE {})

\* df.duplicated(check_col, keep=False).any()
DuplicatedRows(df, check_col) ==
    \E i, j \in Rows(df) :
        i # j /\ \A c \in check_col : Cell(df, i, c) = Cell(df, j, c)

is_tidy_NoDupCheck(df) ==
    /\ nlevels(df) = 1
    /\ TidyValCol(df) = ColumnSet(df)

\* A multi-level column axis holds tuples, which never equal the strings of
\* val_col: the comparison of line 40 fails for it.
is_tidy(df) ==
    /\ nlevels(df) = 1
    /\ TidyValCol(df) = ColumnSet(df)
    /\ ~DuplicatedRows(df, TidyValCol(df) \ {S("Value")})

\* df.columns.duplicated(keep=False).any()
DuplicatedCols(df) == \E i, j \in Cols(df) : i # j /\ df.cols[i] = df.cols[j]

WideValLvl(df) ==
    {S("Part A"), S("Part B"), S("Part C"), S("Part E"), S("Part F"),
     S("Units"), S("Data Type")}
      \cup (IF S("Study") \in Range(df.names) THEN {S("Study")} ELSE {})

is_wide_NoPartA(df) ==
    /\ (WideValLvl(df) \ {S("Part A")}) = Range(df.names)
    /\ ~DuplicatedCols(df)

is_wide(df) ==
    /\ WideValLvl(df) = Range(df.names)
    /\ ~DuplicatedCols(df)

CondenseValLvl(df) ==
    {S("Part A"), S("Part B"), S("Part C"), S("Part E"), S("Part F"),
     S("Units & Type")}
      \cup (IF S("Study") \in Range(df.names) THEN {S("Study")} ELSE {})

is_condense_NoPartA(df) ==
    /\ Range(df.names) \subseteq (CondenseValLvl(df) \ {S("Part A")})
    /\ ~DuplicatedCols(df)

is_condense(df) ==
    /\ Range(df.names) \subseteq CondenseValLvl(df)
    /\ ~DuplicatedCols(df)

(***************************************************************************)
(* pandas helpers used by tools/transform.py                               *)
(***************************************************************************)
\* the outcome of a call: the table returned, or the exception raised and
\* the columns its message names
Ok(df) == [status |-> "ok", df |-> df, miss |-> {}]

Raise(e) == [status |-> e, df |-> NoDF, miss |-> {}]

\* ValueError('Values required for the following columns: {}.')
RaiseMissing(cols) == [status |-> "ValueError", df |-> NoDF, miss |-> cols]

Positions(n) == [i \in 1..n |-> i]

RECURSIVE SortSet(_)
SortSet(T) ==
    IF T = {} THEN <<>>
    ELSE LET m == CHOOSE x \in T : \A y \in T : x <= y
         IN  <<m>> \o SortSet(T \ {m})

\* Series.unique(): the distinct values in order of first appearance
UniqueSeq(s) ==
    LET first(i) == \A j \in 1..(i - 1) : s[j] # s[i]
        keep == SelectSeq(Positions(Len(s)), first)
    IN  [k \in 1..Len(keep) |-> s[keep[k]]]

Column(df, name) == [i \in 1..Len(df.data) |-> Cell(df, i, name)]

\* df.drop(names, axis=1)
DropCols(df, dropped) ==
    LET stay(j) == df.cols[j][1] \notin dropped
        keep == SelectSeq(Positions(Len(df.cols)), stay)
    IN  [df EXCEPT !.cols = [k \in 1..Len(keep) |-> df.cols[keep[k]]],
                   !.data = [i \in 1..Len(df.data) |->
                               [k \in 1..Len(keep) |-> df.data[i][keep[k]]]]]

\* df[name] = values (a new column, appended; values is one cell per row)
AddCol(df, name, values) ==
    [df EXCEPT !.cols = Append(df.cols, <<name>>),
               !.data = [i \in 1..Len(df.data) |-> Append(df.data[i], values[i])]]

Const(df, v) == [i \in 1..Len(df.data) |-> v]

MaxOf(T) == IF T = {} THEN 0 ELSE CHOOSE x \in T : \A y \in T : y <= x

IsMonotonic(s) ==
    \/ \A i \in 1..(Len(s) - 1) : s[i] <= s[i + 1]
    \/ \A i \in 1..(Len(s) - 1) : s[i] >= s[i + 1]

IsUnique(s) == \A i, j \in 1..Len(s) : i # j => s[i] # s[j]

\* pd.infer_freq on month-end timestamps: fewer than 3 dates raise; a constant
\* spacing of one month is "M"; any other constant spacing is a rule outside
\* t_steps ("2M", "Q-...", "A-..."), written "other"; no rule gives None.
infer_freq(times) ==
    IF Len(times) < 3 THEN [status |-> "ValueError", freq |-> "None"]
    ELSE IF ~IsMonotonic(times) \/ ~IsUnique(times)
         THEN [status |-> "ok", freq |-> "None"]
    ELSE LET d == {times[i + 1] - times[i] : i \in 1..(Len(times) - 1)}
         IN  IF Cardinality(d) # 1 THEN [status |-> "ok", freq |-> "None"]
             ELSE IF d = {1} \/ d = {-1} THEN [status |-> "ok", freq |-> "M"]
             ELSE [status |-> "ok", freq |-> "other"]

\* tools/variables.py: t_steps_inv
t_steps_inv == ("M" :> S("1MON")) @@ ("D" :> S("1DAY")) @@ ("H" :> S("1HOUR"))
                 @@ ("6H" :> S("6HOUR"))

\* nonempty and not None ("if v:")
Truthy(v) == v # None /\ v # <<>>

(***************************************************************************)
(* tools/transform.py: split_pathname, join_pathname                       *)
(***************************************************************************)
path_split == <<S("Part 0"), S("Part A"), S("Part B"), S("Part C"),
                S("Part D"), S("Part E"), S("Part F"), S("Part 7")>>

drop_col == {S("Pathname"), S("Part 0"), S("Part D"), S("Part 7")}

\* df['Pathname'].str.split('/'), one list of segments per row
Segments(df) ==
    [i \in 1..Len(df.data) |-> SplitOn(Cell(df, i, S("Pathname")), "/")]

\* number of columns of str.split('/', expand=True)
SplitWidth(segs) == MaxOf({Len(segs[i]) : i \in 1..Len(segs)})

\* expand=True pads the shorter rows with None
Segment(segs, i, k) == IF k <= Len(segs[i]) THEN segs[i][k] ELSE None

\* df[path_split] = ...; df.drop(['Pathname', 'Part 0', 'Part D', 'Part 7'])
SplitRows(df, segs) ==
    LET kept == SelectSeq(Positions(Len(path_split)),
                          LAMBDA k : path_split[k] \notin drop_col)
        base == DropCols(df, {S("Pathname")})
    IN  [base EXCEPT
           !.cols = base.cols \o [k \in 1..Len(kept) |-> <<path_split[kept[k]]>>],
           !.data = [i \in 1..Len(base.data) |->
                       base.data[i] \o [k \in 1..Len(kept) |->
                                          Segment(segs, i, kept[k])]]]

split_pathname(df) ==
    IF ~HasCol(df, S("Pathname")) THEN Raise("KeyError")
    ELSE LET segs == Segments(df)
         IN  IF SplitWidth(segs) # Len(path_split) THEN Raise("ValueError")
             ELSE Ok(SplitRows(df, segs))

req_col == <<S("Part A"), S("Part C"), S("Part E"), S("Part F")>>

col_part == <<S("Part A"), S("Part B"), S("Part C"), S("Part E"), S("Part F")>>

\* r'/{}/{}/{}//{}/{}/'.format(a, b, c, e, f)
construct_pathname(a, b, c, e, f) ==
    <<"/">> \o Fmt(a) \o <<"/">> \o Fmt(b) \o <<"/">> \o Fmt(c) \o <<"/", "/">>
      \o Fmt(e) \o <<"/">> \o Fmt(f) \o <<"/">>

\* the override written over a column that is present
RECURSIVE FillReq_Overwrite(_, _, _)
FillReq_Overwrite(df, given, k) ==
    IF k > Len(req_col) THEN df
    ELSE IF Truthy(given[k])
         THEN FillReq_Overwrite(
                  AddCol(DropCols(df, {req_col[k]}), req_col[k],
                         Const(df, given[k])), given, k + 1)
    ELSE FillReq_Overwrite(df, given, k + 1)

RECURSIVE FillReq(_, _, _)
FillReq(df, given, k) ==
    IF k > Len(req_col) THEN df
    ELSE IF ~HasCol(df, req_col[k]) /\ Truthy(given[k])
         THEN FillReq(AddCol(df, req_col[k], Const(df, given[k])), given, k + 1)
    ELSE FillReq(df, given, k + 1)

miss_col(df, given) ==
    {req_col[k] : k \in {n \in 1..Len(req_col) :
                           ~HasCol(df, req_col[n]) /\ ~Truthy(given[n])}}

JoinRows(df) ==
    LET filled == AddCol(df, S("Pathname"),
                    [i \in 1..Len(df.data) |->
                       construct_pathname(Cell(df, i, S("Part A")),
                                          Cell(df, i, S("Part B")),
                                          Cell(df, i, S("Part C")),
                                          Cell(df, i, S("Part E")),
                                          Cell(df, i, S("Part F")))])
    IN  DropCols(filled, Range(col_part))

join_pathname(df, a, c, e, f) ==
    IF ~Truthy(e) /\ ~HasCol(df, S("DateTime")) THEN Raise("KeyError")
    ELSE LET inf == IF Truthy(e) THEN [status |-> "ok", freq |-> "None"]
                    ELSE infer_freq(UniqueSeq(Column(df, S("DateTime"))))
         IN  IF inf.status # "ok" THEN Raise(inf.status)
             ELSE IF inf.freq = "other" THEN Raise("KeyError")
             ELSE LET e2 == IF Truthy(e) THEN e
                            ELSE IF inf.freq = "None" THEN None
                            ELSE t_steps_inv[inf.freq]
                      given == <<a, c, e2, f>>
                  IN  IF miss_col(df, given) # {}
                      THEN RaiseMissing(miss_col(df, given))
                      ELSE IF ~HasCol(df, S("Part B")) THEN Raise("KeyError")
                      ELSE Ok(JoinRows(FillReq(df, given, 1)))

(***************************************************************************)
(* pandas reshaping: set_index + unstack, fillna + stack + reset_index     *)
(***************************************************************************)
KeyOf(df, i, header) == [k \in 1..Len(header) |-> Cell(df, i, header[k])]

\* "Index contains duplicate entries, cannot reshape"
PivotCollision(df, header) ==
    \E i, j \in Rows(df) :
        /\ i # j
        /\ KeyOf(df, i, header) = KeyOf(df, j, header)
        /\ Cell(df, i, S("DateTime")) = Cell(df, j, S("DateTime"))

unstack(df, header) ==
    LET keys == [i \in 1..Len(df.data) |-> KeyOf(df, i, header)]
        labels == UniqueSeq(keys)
        idx == SortSet(Range(Column(df, S("DateTime"))))
        hit(r, c) == {i \in Rows(df) : /\ keys[i] = labels[c]
                                       /\ Cell(df, i, S("DateTime")) = idx[r]}
        cell(r, c) == IF hit(r, c) = {} THEN NaN
                      ELSE Cell(df, CHOOSE i \in hit(r, c) : TRUE, S("Value"))
    IN  [names |-> header, cols |-> labels, iname |-> S("DateTime"),
         ikind |-> "datetime", index |-> idx,
         data |-> [r \in 1..Len(idx) |-> [c \in 1..Len(labels) |-> cell(r, c)]]]

\* df.fillna(v) on a numeric table
fillna(df, v) ==
    [df EXCEPT !.data = [r \in 1..Len(df.data) |->
                           [c \in 1..Len(df.cols) |->
                              IF df.data[r][c] = NaN THEN v ELSE df.data[r][c]]]]

\* df.stack(df.columns.names) of a table without NaN, then name = 'Value' and
\* reset_index(): one row per cell, the index first
stack_reset(df) ==
    LET nc == Len(df.cols)
        n == Len(df.data) * nc
        r(k) == ((k - 1) \div nc) + 1
        c(k) == ((k - 1) % nc) + 1
        first == IF df.iname = None THEN S("level_0") ELSE df.iname
    IN  [names |-> <<None>>,
         cols |-> <<<<first>>>> \o [k \in 1..Len(df.names) |-> <<df.names[k]>>]
                    \o <<<<S("Value")>>>>,
         iname |-> None, ikind |-> "range", index |-> Positions(n),
         data |-> [k \in 1..n |->
                     <<df.index[r(k)]>> \o df.cols[c(k)] \o <<df.data[r(k)][c(k)]>>]]

\* df.replace(old, new): only the Value column holds numbers that can equal old
replace(df, old, new) ==
    LET j == ColPos(df, S("Value"))
    IN  [df EXCEPT !.data = [i \in 1..Len(df.data) |->
                               [df.data[i] EXCEPT ![j] =
                                  IF df.data[i][j] = old THEN new ELSE df.data[i][j]]]]

(***************************************************************************)
(* tools/transform.py: the four transforms                                 *)
(***************************************************************************)
StudyFirst(df) == IF HasCol(df, S("Study")) THEN <<S("Study")>> ELSE <<>>

wide_col_header == <<S("Part A"), S("Part B"), S("Part C"), S("Part E"),
                     S("Part F"), S("Units"), S("Data Type")>>

\* set_index raises KeyError for a column the table does not have
PivotFrom(df, header) ==
    IF \E c \in Range(header) \cup {S("DateTime"), S("Value")} : ~HasCol(df, c)
    THEN Raise("KeyError")
    ELSE IF PivotCollision(df, header) THEN Raise("ValueError")
    ELSE LET w == unstack(df, header)
         IN  IF infer_freq(w.index).status # "ok" THEN Raise("ValueError")
             ELSE Ok(w)

tidy_to_wide_Ungated(df) ==
    LET sp == split_pathname(df)
    IN  IF sp.status # "ok" THEN sp
        ELSE PivotFrom(sp.df, StudyFirst(sp.df) \o wide_col_header)

tidy_to_wide(df) ==
    IF ~is_tidy(df) THEN Raise("TypeError")
    ELSE LET sp == split_pathname(df)
         IN  IF sp.status # "ok" THEN sp
             ELSE PivotFrom(sp.df, StudyFirst(sp.df) \o wide_col_header)

wide_to_tidy(df) ==
    IF ~is_wide(df) THEN Raise("TypeError")
    ELSE LET st == stack_reset(fillna(df, Sentinel))
             jn == join_pathname(st, None, None, None, None)
         IN  IF jn.status # "ok" THEN jn
             ELSE Ok(replace(jn.df, Sentinel, NaN))

\* '{} {}'.format(units, data_type)
new_unit(u, d) == Fmt(u) \o <<" ">> \o Fmt(d)

col_uni == <<S("Part A"), S("Part C"), S("Part E"), S("Part F"), S("Study")>>

\* the columns of col_uni that are present and hold one distinct value
UniqueValued(df) ==
    {c \in Range(col_uni) :
        HasCol(df, c) /\ Cardinality(Range(Column(df, c))) = 1}

\* sorted(col_idx - {'DateTime'}) with 'Study' moved to the front
idx_piv(df) ==
    SelectSeq(<<S("Study"), S("Part A"), S("Part B"), S("Part C"), S("Part E"),
                S("Part F"), S("Units & Type")>>,
              LAMBDA c : HasCol(df, c))

tidy_to_condense(df) ==
    IF ~is_tidy(df) THEN Raise("TypeError")
    ELSE LET sp == split_pathname(df)
         IN  IF sp.status # "ok" THEN sp
             ELSE LET un == AddCol(sp.df, S("Units & Type"),
                              [i \in 1..Len(sp.df.data) |->
                                 new_unit(Cell(sp.df, i, S("Units")),
                                          Cell(sp.df, i, S("Data Type")))])
                      du == DropCols(un, {S("Units"), S("Data Type")})
                      dc == DropCols(du, UniqueValued(du))
                  IN  PivotFrom(dc, idx_piv(dc))

\* number of columns of str.split(expand=True)
UnitWidth(df) ==
    MaxOf({Len(SplitWhite(Cell(df, i, S("Units & Type")))) : i \in Rows(df)})

org_unit == <<S("Units"), S("Data Type")>>

UnitPart(df, i, k) ==
    LET w == SplitWhite(Cell(df, i, S("Units & Type")))
    IN  IF k <= Len(w) THEN w[k] ELSE None

SplitUnits(df) ==
    LET u == AddCol(df, org_unit[1], [i \in 1..Len(df.data) |-> UnitPart(df, i, 1)])
        d == AddCol(u, org_unit[2], [i \in 1..Len(df.data) |-> UnitPart(df, i, 2)])
    IN  DropCols(d, {S("Units & Type")})

condense_to_tidy(df, a, c, f) ==
    IF ~is_condense(df) THEN Raise("TypeError")
    ELSE IF S("Units & Type") \notin Range(df.names) THEN Raise("KeyError")
    ELSE LET st == stack_reset(fillna(df, Sentinel))
         IN  IF UnitWidth(st) # Len(org_unit) THEN Raise("ValueError")
             ELSE LET jn == join_pathname(SplitUnits(st), a, c, None, f)
                  IN  IF jn.status # "ok" THEN jn
                      ELSE Ok(replace(jn.df, Sentinel, NaN))

(***************************************************************************)
(* calsim_toolkit.py: the accessor df.cs                                   *)
(***************************************************************************)
\* CalSimAccessor._validate: the accessor exists only for a table that one
\* of the validators accepts
cs_validate(df) == is_tidy(df) \/ is_wide(df) \/ is_condense(df)

\* df.cs.tidy(a=, c=, f=)
cs_tidy(df, k) ==
    IF ~cs_validate(df) THEN Raise("TypeError")
    ELSE IF is_wide(df) THEN wide_to_tidy(df)
    ELSE IF is_condense(df) THEN condense_to_tidy(df, k.a, k.c, k.f)
    ELSE IF is_tidy(df) THEN Ok(df)
    ELSE Raise("TypeError")

\* df.cs.wide(a=, c=, f=)
cs_wide(df, k) ==
    IF ~cs_validate(df) THEN Raise("TypeError")
    ELSE IF is_tidy(df) THEN tidy_to_wide(df)
    ELSE IF is_condense(df) THEN
             LET t == condense_to_tidy(df, k.a, k.c, k.f)
             IN  IF t.status # "ok" THEN t ELSE tidy_to_wide(t.df)
    ELSE IF is_wide(df) THEN Ok(df)
    ELSE Raise("TypeError")

\* df.cs.condense()
cs_condense(df) ==
    IF ~cs_validate(df) THEN Raise("TypeError")
    ELSE IF is_tidy(df) THEN tidy_to_condense(df)
    ELSE IF is_wide(df) THEN
             LET t == wide_to_tidy(df)
             IN  IF t.status # "ok" THEN t
                 ELSE tidy_to_condense(t.df)
    ELSE IF is_condense(df) THEN Ok(df)
    ELSE Raise("TypeError")

(***************************************************************************)
(* analysis/stats.py: MonthlyMean                                          *)
(***************************************************************************)
\* Timestamp.month of a month-end ordinal
MonthOf(t) == ((t - 1) % 12) + 1

\* dt.datetime(2000, m, 1).strftime('%b')
month_name(m) ==
    <<S("Jan"), S("Feb"), S("Mar"), S("Apr"), S("May"), S("Jun"),
      S("Jul"), S("Aug"), S("Sep"), S("Oct"), S("Nov"), S("Dec")>>[m]

\* the months in calendar order
water_months_Calendar ==
    <<S("Jan"), S("Feb"), S("Mar"), S("Apr"), S("May"), S("Jun"),
      S("Jul"), S("Aug"), S("Sep"), S("Oct"), S("Nov"), S("Dec")>>

water_months ==
    <<S("Oct"), S("Nov"), S("Dec"), S("Jan"), S("Feb"), S("Mar"),
      S("Apr"), S("May"), S("Jun"), S("Jul"), S("Aug"), S("Sep")>>

RECURSIVE SumSeq(_)
SumSeq(s) == IF s = <<>> THEN 0 ELSE Head(s) + SumSeq(Tail(s))

\* the mean of the numbers of s that are not NaN, NaN when there is none.
\* The division is exact for the values the input tables hold (BaseValue).
mean(s) ==
    LET v == SelectSeq(s, LAMBDA x : x # NaN)
    IN  IF v = <<>> THEN NaN ELSE SumSeq(v) \div Len(v)

\* df.groupby(df.index.month).mean(), the index renamed by month_name and
\* reindexed by water_months
groupby_month(df) ==
    LET months == {MonthOf(df.index[r]) : r \in Rows(df)}
        group(m) == SelectSeq(Positions(Len(df.data)),
                              LAMBDA r : MonthOf(df.index[r]) = m)
        cell(m, c) == mean([k \in 1..Len(group(m)) |-> df.data[group(m)[k]][c]])
        num(name) == CHOOSE m \in 1..12 : month_name(m) = name
    IN  [df EXCEPT
           !.iname = S("Month"), !.ikind = "month", !.index = water_months,
           !.data = [r \in 1..Len(water_months) |->
                       [c \in 1..Len(df.cols) |->
                          IF num(water_months[r]) \in months
                          THEN cell(num(water_months[r]), c) ELSE NaN]]]

\* df.stack(all levels), name = 'Value', reset_index(): stack drops the NaN
\* cells
stack_dropna(df) ==
    LET st == stack_reset(df)
        j == ColPos(st, S("Value"))
        rows == SelectSeq(st.data, LAMBDA row : row[j] # NaN)
    IN  [st EXCEPT !.data = rows, !.index = Positions(Len(rows))]

\* A table that is not tidy is used as it is; index.month exists only on a
\* DatetimeIndex.
MonthlyMean(df) ==
    LET tw == IF is_tidy(df) THEN tidy_to_wide(df) ELSE Ok(df)
    IN  IF tw.status # "ok" THEN tw
        ELSE IF tw.df.ikind # "datetime" THEN Raise("AttributeError")
        ELSE IF is_tidy(df) THEN Ok(stack_dropna(groupby_month(tw.df)))
        ELSE Ok(groupby_month(tw.df))

(***************************************************************************)
(* tools/selection.py: PartB                                               *)
(***************************************************************************)
\* str.upper, on the letters the filters hold
upper(s) ==
    [i \in 1..Len(s) |->
        IF s[i] = "x" THEN "X" ELSE IF s[i] = "y" THEN "Y" ELSE s[i]]

\* sub in s
Contains(sub, s) ==
    \E o \in 0..(Len(s) - Len(sub)) : SubSeq(s, o + 1, o + Len(sub)) = sub

\* Part_Bs[i] == b_uppr[j], or b_uppr[j] in Part_Bs[i]
b_hit(part, bj, match) == IF match THEN part = bj ELSE Contains(bj, part)

\* the two loops over the columns and over the filters: a column is appended
\* once for every filter it meets
RECURSIVE col_list(_, _, _, _)
col_list(parts, b_uppr, match, i) ==
    IF i > Len(parts) THEN <<>>
    ELSE LET met == SelectSeq(b_uppr,
                              LAMBDA bj : b_hit(parts[i], bj, match))
         IN  [k \in 1..Len(met) |-> i] \o col_list(parts, b_uppr, match, i + 1)

\* the tidy branch: isin, or str.contains of the filters joined by '|' (for
\* filters of letters and digits, a row is kept when it contains one of them);
\* df.loc[filter, :] keeps the index labels of the rows
PartB_tidy(df, b_uppr, match) ==
    LET sp == split_pathname(df)
    IN  IF sp.status # "ok" THEN sp
        ELSE LET kept == SelectSeq(Positions(Len(df.data)),
                             LAMBDA i : \E j \in 1..Len(b_uppr) :
                                 b_hit(Cell(sp.df, i, S("Part B")),
                                       b_uppr[j], match))
             IN  IF kept = <<>> THEN Ok(df)
                 ELSE Ok([df EXCEPT
                            !.index = [k \in 1..Len(kept) |-> df.index[kept[k]]],
                            !.data = [k \in 1..Len(kept) |-> df.data[kept[k]]]])

\* the wide and condense branch: df.loc[:, col_list]
PartB_pivot(df, b_uppr, match) ==
    IF S("Part B") \notin Range(df.names) THEN Raise("KeyError")
    ELSE LET lv == CHOOSE k \in 1..Len(df.names) : df.names[k] = S("Part B")
             parts == [j \in 1..Len(df.cols) |-> df.cols[j][lv]]
             cl == col_list(parts, b_uppr, match, 1)
         IN  IF cl = <<>> \/ df.data = <<>> THEN Ok(df)
             ELSE Ok([df EXCEPT
                        !.cols = [k \in 1..Len(cl) |-> df.cols[cl[k]]],
                        !.data = [r \in 1..Len(df.data) |->
                                    [k \in 1..Len(cl) |-> df.data[r][cl[k]]]]])

\* a table of no format leaves df_filtered unbound
PartB(df, b, match) ==
    LET b_uppr == [j \in 1..Len(b) |-> upper(b[j])]
    IN  IF is_tidy(df) THEN PartB_tidy(df, b_uppr, match)
        ELSE IF is_wide(df) \/ is_condense(df)
             THEN PartB_pivot(df, b_uppr, match)
        ELSE Raise("UnboundLocalError")

(***************************************************************************)
(* analysis/stats.py: AggregateAnnual                                      *)
(***************************************************************************)
\* Timestamp.year of a month-end ordinal
YearOf(t) == 2000 + ((t - 1) \div 12)

\* water_year = lambda x: x.year if x.month < 10 else x.year + 1
water_year(t) == IF MonthOf(t) < 10 THEN YearOf(t) ELSE YearOf(t) + 1

\* pd.to_datetime(year, format='%Y'): the first month of the year
to_datetime(y) == 12 * (y - 2000) + 1

\* the sum of the numbers of s that are not NaN, 0 when there is none
sum(s) == SumSeq(SelectSeq(s, LAMBDA x : x # NaN))

\* df.loc[df['Data Type'] == d, :]
loc_data_type(df, d) ==
    LET jd == ColPos(df, S("Data Type"))
        rows == SelectSeq(df.data, LAMBDA row : row[jd] = d)
    IN  [df EXCEPT !.data = rows, !.index = Positions(Len(rows))]

\* df.loc[df['DateTime'].dt.month == eom, :]
loc_month(df, eom) ==
    LET jt == ColPos(df, S("DateTime"))
        rows == SelectSeq(df.data, LAMBDA row : MonthOf(row[jt]) = eom)
    IN  [df EXCEPT !.data = rows, !.index = Positions(Len(rows))]

\* df['DateTime'] = df['DateTime'].apply(water_year), pd.to_datetime(...) or
\* .dt.year
apply(df, how) ==
    LET jt == ColPos(df, S("DateTime"))
        to(t) == IF how = "water_year" THEN water_year(t)
                 ELSE IF how = "to_datetime" THEN to_datetime(t)
                 ELSE YearOf(t)
    IN  [df EXCEPT !.data = [i \in 1..Len(df.data) |->
                               [df.data[i] EXCEPT ![jt] = to(@)]]]

\* df['DateTime'] = water year; df.groupby(all columns but Value).mean() or
\* .sum() and reset_index(): one row per distinct key, rows with a None in
\* the key left out
annual_group(df, how) ==
    LET jv == ColPos(df, S("Value"))
        jt == ColPos(df, S("DateTime"))
        yr == apply(df, "water_year").data
        keyed == SelectSeq(yr, LAMBDA row :
                     \A j \in 1..Len(row) : j \in {jv, jt} \/ row[j] # None)
        keys == UniqueSeq([i \in 1..Len(keyed) |-> [keyed[i] EXCEPT ![jv] = 0]])
        vals(k) == LET g == SelectSeq(keyed, LAMBDA row :
                                [row EXCEPT ![jv] = 0] = k)
                   IN  [i \in 1..Len(g) |-> g[i][jv]]
        agg(k) == IF how = "mean" THEN mean(vals(k)) ELSE sum(vals(k))
    IN  [df EXCEPT !.data = [g \in 1..Len(keys) |->
                               [keys[g] EXCEPT ![jv] = agg(keys[g])]],
                   !.index = Positions(Len(keys))]

\* the tidy table of key parts AggregateAnnual works on
annual_input(df) ==
    IF is_tidy(df) THEN split_pathname(df)
    ELSE LET t == IF is_wide(df) THEN wide_to_tidy(df)
                  ELSE IF is_condense(df)
                       THEN condense_to_tidy(df, S("CALSIM"), S("TEMP"),
                                             S("TEMP"))
                  ELSE Raise("RuntimeError")
         IN  IF t.status # "ok" THEN t ELSE split_pathname(t.df)

\* the three parts by Data Type, aggregated and concatenated
annual_rows(df, eom) ==
    LET df_aver == annual_group(loc_data_type(df, S("PER-AVER")), "mean")
        df_cum == annual_group(loc_data_type(df, S("PER-CUM")), "sum")
        df_val == apply(loc_month(loc_data_type(df, S("INST-VAL")), eom),
                        "water_year")
        rows == df_aver.data \o df_cum.data \o df_val.data
    IN  [df EXCEPT !.data = rows, !.index = Positions(Len(rows))]

\* df[cols] of a flat table: the columns named, in that order
SelectCols(df, cols) ==
    [df EXCEPT !.cols = cols,
               !.data = [i \in 1..Len(df.data) |->
                           [k \in 1..Len(cols) |-> Cell(df, i, cols[k][1])]]]

\* df.index = df.index.year, index.name = 'Water Year', df[cols] of a pivoted
\* table: KeyError when a label of cols is not a column of df
annual_pivot(w, org) ==
    IF w.names # org.names \/ \E c \in Range(org.cols) : c \notin Range(w.cols)
    THEN Raise("KeyError")
    ELSE LET pos(c) == CHOOSE j \in Cols(w) : w.cols[j] = c
         IN  Ok([w EXCEPT
                   !.iname = S("Water Year"), !.ikind = "year",
                   !.index = [r \in 1..Len(w.index) |-> YearOf(w.index[r])],
                   !.cols = org.cols,
                   !.data = [r \in 1..Len(w.data) |->
                               [k \in 1..Len(org.cols) |->
                                  w.data[r][pos(org.cols[k])]]]])

\* join_pathname(e='temp'), pd.to_datetime, and the return in the format of
\* the argument df
annual_return(df, df_annual) ==
    LET jn == join_pathname(df_annual, None, None, S("temp"), None)
    IN  IF jn.status # "ok" THEN jn
        ELSE IF is_tidy(df) THEN
            LET sel == SelectCols(apply(apply(jn.df, "to_datetime"), "year"),
                                  df.cols)
                j == ColPos(sel, S("DateTime"))
            IN  Ok([sel EXCEPT !.cols[j] = <<S("Water Year")>>])
        ELSE LET dated == apply(jn.df, "to_datetime")
                 w == IF is_wide(df) THEN tidy_to_wide(dated)
                      ELSE tidy_to_condense(dated)
             IN  IF w.status # "ok" THEN w
                 ELSE annual_pivot(w.df, df)

\* the aggregated rows are computed once and handed to the return step
AggregateAnnual(df, eom) ==
    LET inp == annual_input(df)
    IN  IF inp.status # "ok" THEN inp
        ELSE CHOOSE r \in {annual_return(df, rows) :
                             rows \in {annual_rows(inp.df, eom)}} : TRUE

(***************************************************************************)
(* Bounds: a table holds up to MaxSeries series and NTimes timestamps      *)
(***************************************************************************)
MaxSeries == 2

NTimes == 3

(***************************************************************************)
(* analysis/stats.py: MonthlyExceedence                                    *)
(***************************************************************************)
RECURSIVE Gcd(_, _)
Gcd(a, b) == IF b = 0 THEN a ELSE Gcd(b, a % b)

\* the least common multiple of 1..n
RECURSIVE LcmUpTo(_)
LcmUpTo(n) ==
    IF n <= 1 THEN 1
    ELSE LET m == LcmUpTo(n - 1) IN (m \div Gcd(m, n)) * n

\* A probability p is held as the whole number p * ProbScale: every ratio
\* rank / (N + 1) is whole on that scale, for the tables of the input and
\* for the results of the statistics, which hold up to twelve months or
\* MaxSeries * NTimes + 1 probabilities.
ProbScale ==
    LcmUpTo(IF MaxSeries * NTimes + 1 > 12 THEN MaxSeries * NTimes + 2 ELSE 13)

\* Series.rank(method='first', ascending=False): NaN is not ranked
rank(v, i) ==
    IF v[i] = NaN THEN NaN
    ELSE 1 + Cardinality({j \in 1..Len(v) :
                            /\ v[j] # NaN
                            /\ (v[j] > v[i] \/ (v[j] = v[i] /\ j < i))})

\* rank / rank.max()
ratio_OverCount(v, i) ==
    LET n == Cardinality({j \in 1..Len(v) : v[j] # NaN})
    IN  IF v[i] = NaN THEN NaN ELSE (rank(v, i) * ProbScale) \div n

\* rank / (rank.max() + 1)
ratio(v, i) ==
    LET n == Cardinality({j \in 1..Len(v) : v[j] # NaN})
    IN  IF v[i] = NaN THEN NaN ELSE (rank(v, i) * ProbScale) \div (n + 1)

\* ascending, NaN last
SortProb(T) == SortSet(T \ {NaN}) \o (IF NaN \in T THEN <<NaN>> ELSE <<>>)

\* the back-fill left out
bfill_Skipped(col) == col

\* fillna(method='bfill') then fillna(method='ffill') of one column
bfill(col) ==
    [r \in 1..Len(col) |->
        IF \A q \in r..Len(col) : col[q] = NaN THEN NaN
        ELSE col[CHOOSE q \in r..Len(col) :
                   col[q] # NaN /\ \A x \in r..(q - 1) : col[x] = NaN]]

ffill(col) ==
    [r \in 1..Len(col) |->
        IF \A q \in 1..r : col[q] = NaN THEN NaN
        ELSE col[CHOOSE q \in 1..r :
                   col[q] # NaN /\ \A x \in (q + 1)..r : col[x] = NaN]]

\* df_excd: the ratios of every column
ratios(w) ==
    [c \in Cols(w) |->
        LET v == [r \in 1..Len(w.data) |-> w.data[r][c]]
        IN  [r \in 1..Len(w.data) |-> ratio(v, r)]]

\* pd.concat(df_list, axis=1) of one Series per column, indexed by its
\* ratios: a single Series or Series of identical indexes keep their index;
\* otherwise the index is the sorted union, which needs every index to be
\* unique.  Then fillna bfill and ffill.
concat(w, idx) ==
    LET same == \A c \in Cols(w) : idx[c] = idx[1]
        index == IF same THEN idx[1]
                 ELSE SortProb(UNION {Range(idx[c]) : c \in Cols(w)})
        at(p, c) == LET hit == {r \in 1..Len(w.data) : idx[c][r] = p}
                    IN  IF hit = {} THEN NaN
                        ELSE w.data[CHOOSE r \in hit : TRUE][c]
        filled == [c \in Cols(w) |->
                     CHOOSE f \in {ffill(b) :
                                     b \in {bfill([r \in 1..Len(index) |->
                                                     IF same THEN w.data[r][c]
                                                     ELSE at(index[r], c)])}} :
                         TRUE]
    IN  IF ~same /\ \E c \in Cols(w) : ~IsUnique(idx[c])
        THEN Raise("InvalidIndexError")
        ELSE CHOOSE out \in
                 {Ok([w EXCEPT
                        !.iname = S("Exceedence Probability"),
                        !.ikind = "probability", !.index = i,
                        !.data = [r \in 1..Len(i) |->
                                    [c \in 1..Len(w.cols) |-> f[c][r]]]]) :
                    i \in {index}, f \in {filled}} : TRUE

\* the ratios are computed once and handed to the concatenation
exceedence(w) ==
    IF Len(w.cols) = 0 THEN Raise("ValueError")
    ELSE CHOOSE out \in {concat(w, idx) : idx \in {ratios(w)}} : TRUE

\* A table that is not tidy is used as it is.
MonthlyExceedence(df) ==
    LET tw == IF is_tidy(df) THEN tidy_to_wide(df) ELSE Ok(df)
    IN  IF tw.status # "ok" THEN tw
        ELSE LET ex == exceedence(tw.df)
             IN  IF ex.status # "ok" THEN ex
                 ELSE IF is_tidy(df) THEN Ok(stack_dropna(ex.df))
                 ELSE ex

\* AnnualExceedence: the same steps on the table AggregateAnnual returns for
\* the pivoted table
annual_exceedence(ag, tidy) ==
    IF ag.status # "ok" THEN ag
    ELSE LET ex == exceedence(ag.df)
         IN  IF ex.status # "ok" THEN ex
             ELSE IF tidy THEN Ok(stack_dropna(ex.df))
             ELSE ex

AnnualExceedence(df, eom) ==
    LET tw == IF is_tidy(df) THEN tidy_to_wide(df) ELSE Ok(df)
    IN  IF tw.status # "ok" THEN tw
        ELSE CHOOSE out \in {annual_exceedence(ag, is_tidy(df)) :
                               ag \in {AggregateAnnual(tw.df, eom)}} : TRUE

(***************************************************************************)
(* Ownership: the object a call works on is its argument or a copy of it,  *)
(* and the in-place calls (inplace=True) change that object                *)
(***************************************************************************)
\* df_out = df: the working object is the caller's
copy_Shared(df) == [own |-> FALSE, val |-> df]

\* df_out = df.copy(): the working object is a new one
copy(df) == [own |-> TRUE, val |-> df]

\* the caller's table after the call: untouched when the call worked on a
\* copy, else what the in-place calls made of it
LeftBy(w, worked) == IF w.own THEN w.val ELSE worked

\* df.set_index(keys, append=True, inplace=True) and
\* df.reset_index(0, drop=True, inplace=True): the keys become the index and
\* Value is the only column left
set_index(df, keys) ==
    [names |-> df.names, cols |-> <<<<S("Value")>>>>, iname |-> keys,
     ikind |-> "multi",
     index |-> [i \in 1..Len(df.data) |-> KeyOf(df, i, keys)],
     data |-> [i \in 1..Len(df.data) |-> <<Cell(df, i, S("Value"))>>]]

\* the working object of tidy_to_wide after split_pathname(inplace=True),
\* set_index and reset_index
Worked_tidy_to_wide(df) ==
    LET sp == split_pathname(df)
    IN  IF sp.status # "ok" THEN df
        ELSE set_index(sp.df, StudyFirst(sp.df) \o wide_col_header
                                \o <<S("DateTime")>>)

\* the working object of tidy_to_condense after its in-place calls
Worked_tidy_to_condense(df) ==
    LET sp == split_pathname(df)
    IN  IF sp.status # "ok" THEN df
        ELSE LET un == AddCol(sp.df, S("Units & Type"),
                         [i \in 1..Len(sp.df.data) |->
                            new_unit(Cell(sp.df, i, S("Units")),
                                     Cell(sp.df, i, S("Data Type")))])
                 du == DropCols(un, {S("Units"), S("Data Type")})
                 dc == DropCols(du, UniqueValued(du))
             IN  set_index(dc, idx_piv(dc) \o <<S("DateTime")>>)

\* the argument of a transform after the call
After_transform(name, df) ==
    IF name = "tidy_to_wide" THEN
        IF ~is_tidy(df) THEN df
        ELSE LeftBy(copy(df), Worked_tidy_to_wide(df))
    ELSE IF name = "tidy_to_condense" THEN
        IF ~is_tidy(df) THEN df
        ELSE LeftBy(copy(df), Worked_tidy_to_condense(df))
    ELSE IF name = "wide_to_tidy" THEN
        IF ~is_wide(df) THEN df ELSE LeftBy(copy(df), fillna(df, Sentinel))
    ELSE IF name = "condense_to_tidy" THEN
        IF ~is_condense(df) THEN df ELSE LeftBy(copy(df), fillna(df, Sentinel))
    ELSE df

\* the first transform the accessor method passes its copy to
FirstStep(name, df) ==
    IF name = "cs.tidy" THEN
        (IF is_wide(df) THEN "wide_to_tidy"
         ELSE IF is_condense(df) THEN "condense_to_tidy" ELSE "none")
    ELSE IF name = "cs.wide" THEN
        (IF is_tidy(df) THEN "tidy_to_wide"
         ELSE IF is_condense(df) THEN "condense_to_tidy" ELSE "none")
    ELSE IF name = "cs.condense" THEN
        (IF is_tidy(df) THEN "tidy_to_condense"
         ELSE IF is_wide(df) THEN "wide_to_tidy" ELSE "none")
    ELSE IF name \in {"MonthlyMean", "MonthlyExceedence",
                      "AnnualExceedence"} THEN
        (IF is_tidy(df) THEN "tidy_to_wide" ELSE "none")
    ELSE IF name = "AggregateAnnual" THEN
        (IF is_tidy(df) THEN "split_pathname"
         ELSE IF is_wide(df) THEN "wide_to_tidy"
         ELSE IF is_condense(df) THEN "condense_to_tidy" ELSE "none")
    ELSE "none"

\* the caller's table after the call name(df, ...): split_pathname and
\* join_pathname are called with inplace=False, the accessor methods and the
\* statistics pass a copy on to the transforms
ArgAfter(name, df, k) ==
    IF name \in {"split_pathname", "join_pathname"} THEN
        LeftBy(copy(df),
               IF name = "split_pathname"
               THEN (IF split_pathname(df).status = "ok"
                     THEN split_pathname(df).df ELSE df)
               ELSE (IF join_pathname(df, k.a, k.c, k.e, k.f).status = "ok"
                     THEN join_pathname(df, k.a, k.c, k.e, k.f).df ELSE df))
    ELSE IF name \in {"cs.tidy", "cs.wide", "cs.condense", "MonthlyMean",
                      "MonthlyExceedence", "AnnualExceedence"} THEN
        LeftBy(copy(df), After_transform(FirstStep(name, df), df))
    ELSE IF name = "AggregateAnnual" THEN
        LeftBy(copy(df),
               IF FirstStep(name, df) # "split_pathname"
               THEN After_transform(FirstStep(name, df), df)
               ELSE IF split_pathname(df).status = "ok"
                    THEN split_pathname(df).df ELSE df)
    ELSE After_transform(name, df)

(***************************************************************************)
(* Input tables                                                            *)
(***************************************************************************)
RECURSIVE SlashJoin(_)
SlashJoin(segs) ==
    IF Len(segs) = 0 THEN <<>>
    ELSE IF Len(segs) = 1 THEN segs[1]
    ELSE segs[1] \o <<"/">> \o SlashJoin(Tail(segs))

Ser(p, u, d, s) == [p |-> SlashJoin(p), u |-> u, d |-> d, s |-> s]

\* the series a table is drawn from: pathname, units, data type, study
SeriesPool ==
    << Ser(<<<<>>, S("A"), S("X"), S("C"), <<>>, S("1MON"), S("F"), <<>>>>,
           S("CFS"), S("PER-AVER"), S("S1")),
       Ser(<<<<>>, S("B"), S("Y"), S("C"), <<>>, S("1MON"), S("F"), <<>>>>,
           S("TAF"), S("PER-CUM"), S("S1")),
       Ser(<<<<>>, S("A"), S("X"), S("C"), <<>>, S("1MON"), S("F"), <<>>>>,
           S("CFS"), S("PER-AVER"), S("S2")),
       Ser(<<<<>>, S("A"), S("X"), S("K"), <<>>, S("1MON"), S("G"), <<>>>>,
           S("CFS"), S("INST-VAL"), S("S1")),
       Ser(<<<<>>, S("A"), S("X"), S("C"), S("D"), S("1MON"), S("F"), <<>>>>,
           S("CFS"), S("PER-AVER"), S("S1")),
       Ser(<<<<>>, S("A"), S("X"), S("C")>>,
           S("CFS"), S("PER-AVER"), S("S1")),
       Ser(<<<<>>, S("A"), S("Z"), S("C"), <<>>, S("1MON"), S("F"), <<>>>>,
           <<"DEG", " ", "C">>, S("INST-VAL"), S("S1")) >>

\* a table holds the first series alone, another series alone, or the first
\* series with up to MaxSeries - 1 others
Choices ==
    {c \in SUBSET (1..Len(SeriesPool)) :
        /\ Cardinality(c) >= 1 /\ Cardinality(c) <= MaxSeries
        /\ Cardinality(c) > 1 => 1 \in c}

Shapes == {"reg1", "reg2", "irr"}

\* n month ends from start: consecutive, every second month, or consecutive
\* with the last one a month late
Timeline(start, n, shape) ==
    [i \in 1..n |->
        IF shape = "reg2" THEN start + 2 * (i - 1)
        ELSE IF shape = "irr" /\ i = n /\ n > 1 THEN start + i
        ELSE start + (i - 1)]

Timelines == {Timeline(1, n, sh) : n \in 0..NTimes, sh \in Shapes}

CellKinds == {"plain", "nan", "sentinel"}

\* the values are multiples of 12, so that the mean of up to four of them is
\* whole
BaseValue(s, t) == 12 * (10 * s + t)

TidyColumns(hasStudy) ==
    (IF hasStudy THEN <<<<S("Study")>>>> ELSE <<>>)
      \o <<<<S("DateTime")>>, <<S("Pathname")>>, <<S("Units")>>,
           <<S("Data Type")>>, <<S("Value")>>>>

TidyRow(s, t, v, hasStudy) ==
    (IF hasStudy THEN <<SeriesPool[s].s>> ELSE <<>>)
      \o <<t, SeriesPool[s].p, SeriesPool[s].u, SeriesPool[s].d, v>>

RECURSIVE TidyRows(_, _, _, _, _)
TidyRows(sers, tl, cellv, ragged, hasStudy) ==
    IF sers = <<>> THEN <<>>
    ELSE LET s == sers[Len(sers)]
             short == ragged /\ Len(sers) > 1 /\ Len(tl) > 0
             times == IF short THEN SubSeq(tl, 1, Len(tl) - 1) ELSE tl
             val(i) == IF Len(sers) = 1 /\ i = 1 /\ cellv = "nan" THEN NaN
                       ELSE IF Len(sers) = 1 /\ i = 1 /\ cellv = "sentinel"
                            THEN Sentinel
                       ELSE BaseValue(s, times[i])
         IN  TidyRows(SubSeq(sers, 1, Len(sers) - 1), tl, cellv, ragged, hasStudy)
               \o [i \in 1..Len(times) |-> TidyRow(s, times[i], val(i), hasStudy)]

MkTidy(choice, tl, cellv, ragged, hasStudy) ==
    LET rows == TidyRows(SortSet(choice), tl, cellv, ragged, hasStudy)
    IN  [names |-> <<None>>, cols |-> TidyColumns(hasStudy), iname |-> None,
         ikind |-> "range", index |-> Positions(Len(rows)), data |-> rows]

TidyInputs ==
    {MkTidy(c, tl, k, rg, st) :
        c \in Choices, tl \in Timelines, k \in CellKinds,
        rg \in BOOLEAN, st \in BOOLEAN}

\* tables that are flat but not tidy: a column missing, a column too many, a
\* named column axis
FlatBase ==
    {MkTidy(c, Timeline(1, NTimes, "reg1"), "plain", FALSE, st) :
        c \in {{1}, {1, 2}}, st \in BOOLEAN}

FlatVariants ==
    {DropCols(t, {S("Units")}) : t \in FlatBase}
      \cup {AddCol(t, S("Extra"), Const(t, 0)) : t \in FlatBase}
      \cup {[t EXCEPT !.names = <<S("Part B")>>] : t \in FlatBase}

NameOptions ==
    { wide_col_header,
      <<S("Study")>> \o wide_col_header,
      Tail(wide_col_header),
      <<S("Study")>> \o Tail(wide_col_header),
      <<S("Part B"), S("Units & Type")>>,
      <<S("Part A"), S("Part B"), S("Units & Type")>>,
      <<S("Study"), S("Part B"), S("Part C"), S("Units & Type")>>,
      <<S("Part B")>>,
      <<S("Units & Type")>>,
      <<S("Part B"), S("Units")>>,
      <<S("Part B"), S("Part D"), S("Units & Type")>>,
      <<None>> }

LevelVal(name, j) ==
    IF name = S("Part A") THEN S("A")
    ELSE IF name = S("Part B") THEN (IF j = 1 THEN S("X") ELSE S("Y"))
    ELSE IF name = S("Part C") THEN S("C")
    ELSE IF name = S("Part D") THEN <<>>
    ELSE IF name = S("Part E") THEN S("1MON")
    ELSE IF name = S("Part F") THEN S("F")
    ELSE IF name = S("Units") THEN S("CFS")
    ELSE IF name = S("Data Type") THEN S("PER-AVER")
    ELSE IF name = S("Units & Type") THEN
             (IF j = 1 THEN <<"CFS", " ", "PER-AVER">>
              ELSE <<"TAF", " ", "PER-CUM">>)
    ELSE IF name = S("Study") THEN S("S1")
    ELSE (IF j = 1 THEN S("V1") ELSE S("V2"))

ColKinds == {"one", "two", "dup"}

MkPivot(names, kind, tl) ==
    LET label(j) == [k \in 1..Len(names) |-> LevelVal(names[k], j)]
        labels == IF kind = "one" THEN <<label(1)>>
                  ELSE IF kind = "two" THEN <<label(1), label(2)>>
                  ELSE <<label(1), label(1)>>
    IN  [names |-> names, cols |-> labels, iname |-> S("DateTime"),
         ikind |-> "datetime", index |-> tl,
         data |-> [r \in 1..Len(tl) |->
                     [c \in 1..Len(labels) |-> BaseValue(c, tl[r])]]]

PivotInputs ==
    {MkPivot(n, k, Timeline(1, NTimes, "reg1")) : n \in NameOptions, k \in ColKinds}

Converted(T) ==
    {tidy_to_wide(t).df : t \in {x \in T : tidy_to_wide(x).status = "ok"}}
      \cup {tidy_to_condense(t).df :
              t \in {x \in T : tidy_to_condense(x).status = "ok"}}

ValidInputs == TidyInputs \cup FlatVariants \cup PivotInputs \cup Converted(TidyInputs)

(***************************************************************************)
(* State: cur is the caller's table; a call records its argument, its name *)
(* and how it ended, and replaces cur by the returned table.               *)
(***************************************************************************)
NoKw == [a |-> None, c |-> None, f |-> None]

\* the a, c, f keyword arguments of a call: none, all three, or a and f as
\* in tests/test_TransformData.py and in tests/test_ioHEC5Q.py
Overrides ==
    { NoKw,
      [a |-> S("A"), c |-> S("C"), f |-> S("F")],
      [a |-> S("A"), c |-> None, f |-> S("F")],
      [a |-> S("CalSim3"), c |-> None, f |-> S("JAS_dev")] }

Fresh ==
    /\ arg = NoDF /\ parg = NoDF
    /\ op = "init" /\ pop = "init" /\ status = "init"
    /\ ret = FALSE /\ kw = NoKw /\ miss = {} /\ held = NoDF

Running == status \in {"init", "ok"}

Returned(name, r, k) ==
    \E out \in {r} :
        /\ op' = name /\ pop' = op
        /\ arg' = cur /\ parg' = arg
        /\ status' = out.status
        /\ cur' = IF out.status = "ok" THEN out.df ELSE cur
        /\ ret' = FALSE
        /\ kw' = k
        /\ miss' = out.miss
        /\ held' = ArgAfter(name, cur, k)

Answered(name, b) ==
    /\ op' = name /\ arg' = cur /\ ret' = b /\ status' = "ok"
    /\ held' = cur
    /\ UNCHANGED <<cur, parg, pop, kw, miss>>

(***************************************************************************)
(* The validators called on any table                                      *)
(***************************************************************************)
InitValid == cur \in ValidInputs /\ Fresh

Call_is_tidy == Answered("is_tidy", is_tidy(cur))

Call_is_wide == Answered("is_wide", is_wide(cur))

Call_is_condense == Answered("is_condense", is_condense(cur))

NextValid == Call_is_tidy \/ Call_is_wide \/ Call_is_condense

SpecValid == InitValid /\ [][NextValid]_vars

(***************************************************************************)
(* The transforms called one after another, starting from a flat table     *)
(***************************************************************************)
Init == cur \in TidyInputs \cup FlatVariants /\ Fresh

Call_tidy_to_wide == Running /\ Returned("tidy_to_wide", tidy_to_wide(cur), NoKw)

Call_wide_to_tidy == Running /\ Returned("wide_to_tidy", wide_to_tidy(cur), NoKw)

Call_tidy_to_condense ==
    Running /\ Returned("tidy_to_condense", tidy_to_condense(cur), NoKw)

Call_condense_to_tidy ==
    /\ Running
    /\ \E k \in Overrides :
          Returned("condense_to_tidy", condense_to_tidy(cur, k.a, k.c, k.f), k)

Call_split_pathname ==
    Running /\ Returned("split_pathname", split_pathname(cur), NoKw)

Next ==
    \/ Call_tidy_to_wide
    \/ Call_wide_to_tidy
    \/ Call_tidy_to_condense
    \/ Call_condense_to_tidy
    \/ Call_split_pathname

Spec == Init /\ [][Next]_vars

(***************************************************************************)
(* The core operations called on any table: the transforms, the accessor   *)
(* conversions and MonthlyMean                                             *)
(***************************************************************************)
\* every twelfth month end
Yearly == [i \in 1..NTimes |-> 1 + 12 * (i - 1)]

CoreInputs ==
    {MkTidy(c, Timeline(1, NTimes, "reg1"), k, rg, st) :
        c \in {{1}, {1, 2}, {1, 4}}, k \in CellKinds,
        rg \in BOOLEAN, st \in BOOLEAN}
      \cup FlatVariants
      \cup {MkPivot(n, k, tl) :
              n \in NameOptions, k \in {"one", "two"},
              tl \in {Timeline(1, NTimes, "reg1"), Yearly, <<>>}}

InitCore == cur \in CoreInputs /\ Fresh

Call_cs_tidy ==
    /\ Running
    /\ \E k \in Overrides : Returned("cs.tidy", cs_tidy(cur, k), k)

Call_cs_wide ==
    /\ Running
    /\ \E k \in Overrides : Returned("cs.wide", cs_wide(cur, k), k)

Call_cs_condense == Running /\ Returned("cs.condense", cs_condense(cur), NoKw)

Call_MonthlyMean == Running /\ Returned("MonthlyMean", MonthlyMean(cur), NoKw)

NextCore ==
    \/ Call_tidy_to_wide
    \/ Call_wide_to_tidy
    \/ Call_tidy_to_condense
    \/ Call_condense_to_tidy
    \/ Call_cs_tidy
    \/ Call_cs_wide
    \/ Call_cs_condense
    \/ Call_MonthlyMean

SpecCore == InitCore /\ [][NextCore]_vars

(***************************************************************************)
(* The statistics called on tables of the three formats                    *)
(***************************************************************************)
\* the end-of-month arguments of AggregateAnnual: the default, the calendar
\* year, and two others
EndMonths == {9, 12, 3, 10}

KwEom(e) == [a |-> None, c |-> None, f |-> None, eom |-> e]

\* a tidy table whose first series has the same value at its first two
\* timestamps
Tied(df) ==
    IF Len(df.data) < 2 THEN df
    ELSE LET j == ColPos(df, S("Value"))
         IN  [df EXCEPT !.data[1][j] = df.data[2][j]]

\* a tidy table whose PER-CUM series are of Data Type INST-CUM instead
Retyped(df) ==
    LET j == ColPos(df, S("Data Type"))
    IN  [df EXCEPT !.data = [i \in 1..Len(df.data) |->
                               IF df.data[i][j] = S("PER-CUM")
                               THEN [df.data[i] EXCEPT ![j] = S("INST-CUM")]
                               ELSE df.data[i]]]

\* one timestamp a year, the last one a month late
YearlyLate == [i \in 1..NTimes |-> Yearly[i] + (IF i = NTimes THEN 1 ELSE 0)]

StatsTimelines ==
    {Timeline(1, NTimes, "reg1"), Timeline(9, NTimes, "reg1"),
     Timeline(11, NTimes, "reg1"), Yearly, YearlyLate}

StatsTidy ==
    LET plain == {MkTidy(c, tl, k, rg, FALSE) :
                    c \in {{1}, {4}, {1, 2}, {1, 4}}, tl \in StatsTimelines,
                    k \in {"plain", "nan"}, rg \in BOOLEAN}
    IN  plain \cup {Tied(t) : t \in plain} \cup {Retyped(t) : t \in plain}

StatsInputs ==
    {t \in StatsTidy : is_tidy(t)} \cup Converted(StatsTidy)
      \cup {MkPivot(n, "two", Yearly) : n \in NameOptions}

\* a table whose index is not the row number holds numbers only
Numeric(df) == df.ikind # "range"

InitStats == cur \in StatsInputs /\ Fresh

Call_AggregateAnnual ==
    /\ Running
    /\ \E e \in EndMonths :
         Returned("AggregateAnnual", AggregateAnnual(cur, e), KwEom(e))

\* DataFrame.rank on columns of text is not modelled
Call_MonthlyExceedence ==
    /\ Running
    /\ IF is_tidy(cur) THEN TRUE ELSE Numeric(cur)
    /\ Returned("MonthlyExceedence", MonthlyExceedence(cur), NoKw)

NextStats ==
    \/ Call_AggregateAnnual
    \/ Call_MonthlyMean
    \/ Call_MonthlyExceedence

SpecStats == InitStats /\ [][NextStats]_vars

(***************************************************************************)
(* The two exceedance statistics                                           *)
(***************************************************************************)
Call_AnnualExceedence ==
    /\ Running
    /\ IF is_tidy(cur) THEN TRUE ELSE Numeric(cur)
    /\ \E e \in EndMonths :
         Returned("AnnualExceedence", AnnualExceedence(cur, e), KwEom(e))

NextExceedence == Call_MonthlyExceedence \/ Call_AnnualExceedence

SpecExceedence == InitStats /\ [][NextExceedence]_vars

(***************************************************************************)
(* Selection by location, on tables of the three formats                   *)
(***************************************************************************)
\* the filter lists: one location, a location in lower case, two locations,
\* a location given twice, a location no table holds
Filters ==
    { <<S("X")>>, <<S("y")>>, <<S("X"), S("Y")>>, <<S("Y"), S("Y")>>,
      <<S("Q")>> }

KwB(b, match) == [a |-> None, c |-> None, f |-> None, b |-> b, match |-> match]

SelectTidy ==
    {t \in {MkTidy(c, tl, k, rg, st) :
              c \in {{1}, {1, 2}, {1, 7}},
              tl \in {Timeline(1, NTimes, "reg1"), <<>>},
              k \in {"plain", "nan"}, rg \in BOOLEAN, st \in BOOLEAN} :
        is_tidy(t)}

SelectInputs == SelectTidy \cup Converted(SelectTidy)

InitSelect == cur \in SelectInputs /\ Fresh

Call_PartB ==
    /\ Running
    /\ \E b \in Filters, match \in BOOLEAN :
          Returned("PartB", PartB(cur, b, match), KwB(b, match))

NextSelect == Call_PartB \/ Call_tidy_to_wide \/ Call_tidy_to_condense

SpecSelect == InitSelect /\ [][NextSelect]_vars


(***************************************************************************)
(* Every operation that takes a table, called one after another on tables  *)
(* of the three formats                                                    *)
(***************************************************************************)
CallsTidy ==
    {MkTidy(c, tl, k, FALSE, FALSE) :
        c \in {{1, 2}}, tl \in {Timeline(1, NTimes, "reg1"), YearlyLate},
        k \in {"plain", "nan"}}

CallsInputs == CallsTidy \cup Converted(CallsTidy)

InitCalls == cur \in CallsInputs /\ Fresh

NextCalls == NextCore \/ Call_AggregateAnnual \/ Call_MonthlyExceedence

SpecCalls == InitCalls /\ [][NextCalls]_vars

(***************************************************************************)
(* Key encoding: join_pathname called on tables of key parts, and          *)
(* condense_to_tidy on condense tables                                     *)
(***************************************************************************)
JoinTidy ==
    {MkTidy(c, tl, "plain", FALSE, FALSE) :
        c \in {{1}, {1, 2}}, tl \in Timelines \ {<<>>}}

\* the part columns a caller's table may lack
DropSets ==
    { {}, {S("Part A")}, {S("Part B")}, {S("Part C")}, {S("Part E")},
      {S("Part F")}, {S("Part A"), S("Part C"), S("Part F")},
      {S("Part A"), S("Part C"), S("Part E"), S("Part F")} }

JoinInputs ==
    {DropCols(split_pathname(t).df, d) : t \in JoinTidy, d \in DropSets}
      \cup {tidy_to_condense(t).df :
              t \in {x \in JoinTidy : tidy_to_condense(x).status = "ok"}}

\* the a, c, e, f keyword arguments of join_pathname
JoinKw ==
    {[a |-> k.a, c |-> k.c, e |-> e, f |-> k.f] :
        k \in Overrides, e \in {None, S("1MON")}}

InitJoin == cur \in JoinInputs /\ Fresh

Call_join_pathname ==
    /\ Running
    /\ \E k \in JoinKw :
          Returned("join_pathname", join_pathname(cur, k.a, k.c, k.e, k.f), k)

NextJoin ==
    \/ Call_join_pathname
    \/ Call_condense_to_tidy
    \/ Call_cs_tidy
    \/ Call_cs_wide

SpecJoin == InitJoin /\ [][NextJoin]_vars

(***************************************************************************)
(* The accessor conversions called one after another on a tidy table, as   *)
(* in tests/test_TransformData.py                                          *)
(***************************************************************************)
AccessorInputs ==
    {t \in {MkTidy(c, tl, k, rg, st) :
              c \in {{1}, {1, 2}, {1, 4}, {1, 7}}, tl \in Timelines,
              k \in {"plain", "nan"}, rg \in BOOLEAN, st \in BOOLEAN} :
        is_tidy(t)}

InitAccessor == cur \in AccessorInputs /\ Fresh

NextAccessor == Call_cs_tidy \/ Call_cs_wide \/ Call_cs_condense

SpecAccessor == InitAccessor /\ [][NextAccessor]_vars

(***************************************************************************)
(* Comparing tables                                                        *)
(***************************************************************************)
\* the rows of a flat table, each as a mapping from column name to cell
RowSet(df) ==
    {[c \in ColumnSet(df) |-> Cell(df, i, c)] : i \in Rows(df)}

\* equal up to row order and column order
SameRows(a, b) ==
    /\ ColumnSet(a) = ColumnSet(b)
    /\ Len(a.data) = Len(b.data)
    /\ RowSet(a) = RowSet(b)

\* the (Pathname, DateTime) pairs that have a row
RowKeys(df) ==
    {<<Cell(df, i, S("Pathname")), Cell(df, i, S("DateTime"))>> : i \in Rows(df)}

MissingKeys(df) ==
    {<<Cell(df, i, S("Pathname")), Cell(df, i, S("DateTime"))>> :
        i \in {r \in Rows(df) : Cell(df, r, S("Value")) = NaN}}

HoldsSentinel(df) == \E i \in Rows(df) : Cell(df, i, S("Value")) = Sentinel

\* every Pathname is '/A/B/C//E/F/': eight segments, the reserved ones empty
CanonicalKeys(df) ==
    \A i \in Rows(df) :
        LET seg == SplitOn(Cell(df, i, S("Pathname")), "/")
        IN  Len(seg) = Len(path_split) /\ seg[1] = <<>> /\ seg[5] = <<>>
              /\ seg[8] = <<>>

\* a tidy table of canonical keys whose values are not the sentinel
PlainTidy(df) == is_tidy(df) /\ CanonicalKeys(df) /\ ~HoldsSentinel(df)

RoundTripWide == op = "wide_to_tidy" /\ pop = "tidy_to_wide" /\ status = "ok"

RoundTripCondense ==
    op = "condense_to_tidy" /\ pop = "tidy_to_condense" /\ status = "ok"

\* Part A, Part C and Part F are the same in every row, and are the overrides
ConstantParts(df, k) ==
    LET sp == split_pathname(df)
    IN  /\ sp.status = "ok"
        /\ \A i \in Rows(sp.df) :
              /\ Cell(sp.df, i, S("Part A")) = k.a
              /\ Cell(sp.df, i, S("Part C")) = k.c
              /\ Cell(sp.df, i, S("Part F")) = k.f

(***************************************************************************)
(* Claims                                                                  *)
(***************************************************************************)
\* C1: a tidy table taken to wide and back holds exactly its rows again (same
\* Pathname, DateTime, Units, Data Type, Value and Study), up to row order.
\* Stated for the round trips that complete, on tables of canonical keys
\* that do not hold the sentinel.
C1_RoundTripWide == (RoundTripWide /\ PlainTidy(parg)) => SameRows(cur, parg)

\* C2: a tidy table with constant Part A, C and F taken to condense and back
\* with those three values as overrides holds exactly its rows again, its
\* Study column, Interval, Units and Data Type included.
\* Stated for the round trips that complete, on tables of canonical keys
\* that do not hold the sentinel.
C2_RoundTripCondense ==
    (RoundTripCondense /\ PlainTidy(parg) /\ ConstantParts(parg, kw))
        => SameRows(cur, parg)

\* C3: a tidy table with one missing Value, taken to wide and back, has the
\* missing marker at that (Pathname, DateTime) and has a row for exactly the
\* (Pathname, DateTime) pairs that had one.
\* Stated for tables of canonical keys that do not hold the sentinel.
C3_MissingPreserved ==
    (RoundTripWide /\ PlainTidy(parg) /\ Cardinality(MissingKeys(parg)) = 1)
        => /\ MissingKeys(parg) \subseteq MissingKeys(cur)
           /\ RowKeys(cur) = RowKeys(parg)


(***************************************************************************)
(* The validators, stated from the table alone                             *)
(***************************************************************************)
Validators == {"is_tidy", "is_wide", "is_condense"}

\* the labels of the column axis, each a tuple of one value per level
Labels(df) == {df.cols[j] : j \in Cols(df)}

FlatLabels(names) == {<<n>> : n \in names}

TidyNames(df) ==
    FlatLabels({S("DateTime"), S("Pathname"), S("Units"), S("Data Type"),
                S("Value")})
      \cup (Labels(df) \cap {<<S("Study")>>})

\* the key of row i of a table of tidy columns
TidyKey(df, i, withStudy) ==
    <<Cell(df, i, S("Pathname")), Cell(df, i, S("DateTime")),
      Cell(df, i, S("Units")), Cell(df, i, S("Data Type"))>>
      \o (IF withStudy /\ <<S("Study")>> \in Labels(df)
          THEN <<Cell(df, i, S("Study"))>> ELSE <<>>)

SharedKey(df, withStudy) ==
    \E i, j \in Rows(df) :
        i # j /\ TidyKey(df, i, withStudy) = TidyKey(df, j, withStudy)

PairwiseDistinctLabels(df) ==
    Cardinality(Labels(df)) = Len(df.cols)

LevelNames(df) == {df.names[k] : k \in 1..Len(df.names)}

WithStudy(df, names) == names \cup (LevelNames(df) \cap {S("Study")})

\* C4 (as amended): is_tidy answers true exactly when the column set is
\* {DateTime, Pathname, Units, Data Type, Value} (plus Study when present)
\* and no two rows share (Pathname, DateTime, Units, Data Type) and, when a
\* Study column is present, Study; two rows sharing that whole tuple make it
\* answer false.
C4_IsTidyExact ==
    op = "is_tidy" =>
        /\ ret <=> (Labels(arg) = TidyNames(arg) /\ ~SharedKey(arg, TRUE))
        /\ (Labels(arg) = TidyNames(arg) /\ SharedKey(arg, TRUE)) => ~ret

\* C4 witness: is_tidy has answered false for a table of tidy columns in
\* which two rows share their key
C4_Witness ==
    /\ op = "is_tidy" /\ ~ret
    /\ Labels(arg) = TidyNames(arg) /\ SharedKey(arg, TRUE)

\* C4 (as claimed): is_tidy answers true exactly when the column set is right
\* and no two rows share their key, and it answers false for every table with
\* two rows sharing (Pathname, DateTime, Units, Data Type), whatever their
\* Study.
C4_IsTidyFourKey ==
    op = "is_tidy" =>
        /\ ret <=> (Labels(arg) = TidyNames(arg) /\ ~SharedKey(arg, TRUE))
        /\ (Labels(arg) = TidyNames(arg) /\ SharedKey(arg, FALSE)) => ~ret

Formats(df) ==
    (IF is_tidy(df) THEN {"tidy"} ELSE {})
      \cup (IF is_wide(df) THEN {"wide"} ELSE {})
      \cup (IF is_condense(df) THEN {"condense"} ELSE {})

\* C7: the three format predicates are mutually exclusive: for every table a
\* validator is called on, at most one of is_tidy, is_wide and is_condense
\* answers true.
C7_MutuallyExclusive ==
    op \in Validators => Cardinality(Formats(arg)) <= 1


(***************************************************************************)
(* The gates of the transforms and the decoding of keys                    *)
(***************************************************************************)
\* the validator that gates each transform
GateOf(name, df) ==
    IF name \in {"tidy_to_wide", "tidy_to_condense"} THEN is_tidy(df)
    ELSE IF name = "wide_to_tidy" THEN is_wide(df)
    ELSE is_condense(df)

Transforms ==
    {"tidy_to_wide", "tidy_to_condense", "wide_to_tidy", "condense_to_tidy"}

\* C8: every transform is gated by its validator: called on a table its
\* validator refuses, it raises the gate's TypeError and returns no table
\* (the caller keeps the table it passed).
C8_Gated ==
    (op \in Transforms /\ ~GateOf(op, arg))
        => (status = "TypeError" /\ cur = arg)

\* C8 witness: tidy_to_wide was called on an already wide table and raised
C8_Witness ==
    op = "tidy_to_wide" /\ is_wide(arg) /\ status = "TypeError"

\* a Pathname of the table does not have eight slash-delimited segments
MalformedKey(df) ==
    \E i \in Rows(df) :
        Len(SplitOn(Cell(df, i, S("Pathname")), "/")) # Len(path_split)

\* C10: split_pathname fails with a format error whenever some Pathname of
\* the table does not consist of exactly 8 slash-delimited segments; it
\* yields no parts for a table holding a malformed key.
C10_MalformedRejected ==
    (op = "split_pathname" /\ HasCol(arg, S("Pathname")) /\ MalformedKey(arg))
        => status = "ValueError"


(***************************************************************************)
(* Tables of no recognised format                                          *)
(***************************************************************************)
CoreOps ==
    Transforms \cup {"cs.tidy", "cs.wide", "cs.condense", "MonthlyMean"}

UnrecognizedFormatErrors == {"TypeError", "RuntimeError"}

\* C9: a core operation called on a table that satisfies none of is_tidy,
\* is_wide, is_condense ends in an unrecognized-format error; it returns no
\* result computed from that table.
C9_UnrecognizedRejected ==
    (op \in CoreOps /\ ~cs_validate(arg))
        => status \in UnrecognizedFormatErrors


(***************************************************************************)
(* Key encoding                                                            *)
(***************************************************************************)
\* the names join_pathname sees: the columns of its argument, or the level
\* names of the condense table that condense_to_tidy stacks
SeenBy(name, df) ==
    IF name = "condense_to_tidy" THEN LevelNames(df)
    ELSE {df.cols[j][1] : j \in Cols(df)}

\* the override given for a key part; Part B and, in condense_to_tidy,
\* Part E have none
OverrideOf(k, part) ==
    IF part = S("Part A") THEN k.a
    ELSE IF part = S("Part C") THEN k.c
    ELSE IF part = S("Part F") THEN k.f
    ELSE IF part = S("Part E") /\ "e" \in DOMAIN k THEN k.e
    ELSE None

\* the parts among Source, Location, Category, Scenario that are neither
\* seen nor supplied
Unsupplied(name, df, k) ==
    {part \in {S("Part A"), S("Part B"), S("Part C"), S("Part F")} :
        part \notin SeenBy(name, df) /\ OverrideOf(k, part) = None}

\* a call that reaches the key encoding: join_pathname on a flat table, or
\* condense_to_tidy on a condense table with a Units & Type level
Encodes ==
    \/ op = "join_pathname" /\ nlevels(arg) = 1 /\ arg.ikind = "range"
    \/ /\ op = "condense_to_tidy" /\ is_condense(arg)
       /\ S("Units & Type") \in LevelNames(arg)

\* C11: key encoding fails with the missing-part error, which names every
\* key part that is neither present in the table nor supplied as an override
\* (stated for Source, Location, Category and Scenario, which no inference
\* can resolve).
C11_MissingPartsNamed ==
    (Encodes /\ Unsupplied(op, arg, kw) # {})
        => (status = "ValueError" /\ Unsupplied(op, arg, kw) \subseteq miss)


\* the distinct timestamps of a flat table, in order of appearance
DistinctTimes(df) == UniqueSeq(Column(df, S("DateTime")))

\* at least three distinct timestamps, each one month after the one before
MonthlySpaced(times) ==
    /\ Len(times) >= 3
    /\ \A i \in 1..(Len(times) - 1) : times[i + 1] = times[i] + 1

\* the Interval segment of the Pathname of row i
IntervalOf(df, i) == SplitOn(Cell(df, i, S("Pathname")), "/")[6]

\* join_pathname called without e on a flat table with timestamps whose
\* other parts are present or supplied
InfersInterval ==
    /\ op = "join_pathname" /\ nlevels(arg) = 1 /\ arg.ikind = "range"
    /\ S("DateTime") \in SeenBy(op, arg)
    /\ kw.e = None
    /\ Unsupplied(op, arg, kw) = {}

\* C12: when the Interval is not supplied it is inferred from the spacing of
\* the distinct timestamps, monthly spacing giving 1MON; any other or
\* undeterminable spacing leaves it unresolved, which causes the
\* missing-part error if the table has no Part E column and no error when
\* the Part E column is present.
C12_IntervalInferred ==
    InfersInterval =>
        IF S("Part E") \in SeenBy(op, arg) THEN status = "ok"
        ELSE IF MonthlySpaced(DistinctTimes(arg))
             THEN /\ status = "ok"
                  /\ \A i \in Rows(cur) : IntervalOf(cur, i) = S("1MON")
        ELSE status = "ValueError" /\ miss = {S("Part E")}


(***************************************************************************)
(* Sequences of accessor conversions                                       *)
(***************************************************************************)
AccessorOps == {"cs.tidy", "cs.wide", "cs.condense"}

\* all of a, c and f are supplied
FullOverrides(k) == k.a # None /\ k.c # None /\ k.f # None

\* the predicate of the format an accessor method is asked for
Requested(name, df) ==
    IF name = "cs.tidy" THEN is_tidy(df)
    ELSE IF name = "cs.wide" THEN is_wide(df)
    ELSE is_condense(df)

\* C14: in a sequence of accessor conversions that starts from a valid tidy
\* table, each call (given a, c and f when the current table is condense)
\* succeeds and its result satisfies the predicate of the requested format
\* (stated for tables that have rows).
C14_ConversionsSucceed ==
    (/\ op \in AccessorOps /\ arg.data # <<>>
     /\ (is_condense(arg) /\ op # "cs.condense") => FullOverrides(kw))
        => (status = "ok" /\ Requested(op, cur))


(***************************************************************************)
(* Annual aggregation                                                      *)
(***************************************************************************)
\* the water year that ends in month eom
YearEnding(t, eom) == IF MonthOf(t) <= eom THEN YearOf(t) ELSE YearOf(t) + 1

\* the rows of a flat table whose Data Type is d
OfType(df, d) == {i \in Rows(df) : Cell(df, i, S("Data Type")) = d}

\* the rows of the argument that count for a series of Data Type d: all of
\* them for period data, those of month eom for instantaneous data
Counted(df, d, eom) ==
    {i \in OfType(df, d) :
        d = S("INST-VAL") => MonthOf(Cell(df, i, S("DateTime"))) = eom}

\* AggregateAnnual returned from a tidy table whose series differ in their
\* Data Type
AnnualOfTidy ==
    /\ op = "AggregateAnnual" /\ status = "ok" /\ is_tidy(arg)
    /\ HasCol(cur, S("Water Year"))

\* C15: AggregateAnnual with end month eom assigns a timestamp of month m of
\* year y to water year y when m <= eom and to y + 1 when m > eom: the water
\* years of a series in the result are those of its timestamps.
C15_WaterYearEndsInEom ==
    AnnualOfTidy =>
        \A d \in {S("PER-AVER"), S("PER-CUM"), S("INST-VAL")} :
            {Cell(cur, k, S("Water Year")) : k \in OfType(cur, d)}
              = {YearEnding(Cell(arg, i, S("DateTime")), kw.eom) :
                   i \in Counted(arg, d, kw.eom)}


\* a flat table without its Value column
Keys(df) == DropCols(df, {S("Value")})

\* no two rows of a flat table share their key and time, no two rows of a
\* pivoted table their index
OneRowEach(df) ==
    IF df.ikind = "range" THEN IsUnique(Keys(df).data) ELSE IsUnique(df.index)

\* C16: AggregateAnnual returns a table in the format of its input (tidy for
\* tidy, wide for wide, condense for condense, with the same column labels)
\* that has one row per water year for each series.
C16_SameFormatOneRowPerYear ==
    (op = "AggregateAnnual" /\ status = "ok") =>
        /\ is_tidy(arg) => is_tidy(cur)
        /\ is_wide(arg) => is_wide(cur)
        /\ is_condense(arg) => is_condense(cur)
        /\ cur.cols = arg.cols
        /\ OneRowEach(cur)


(***************************************************************************)
(* Monthly means                                                           *)
(***************************************************************************)
\* the place of a month name in the water year, October first
PlaceInWaterYear(name) ==
    CHOOSE k \in 1..12 :
        <<S("Oct"), S("Nov"), S("Dec"), S("Jan"), S("Feb"), S("Mar"),
          S("Apr"), S("May"), S("Jun"), S("Jul"), S("Aug"), S("Sep")>>[k] = name

\* the calendar month of the k-th month of the water year
CalendarMonth(k) == ((k + 8) % 12) + 1

RECURSIVE Total(_, _, _)
Total(w, G, c) ==
    IF G = {} THEN 0
    ELSE LET r == CHOOSE x \in G : TRUE
         IN  w.data[r][c] + Total(w, G \ {r}, c)

\* the rows of the pivoted table w that fall in calendar month m, of any
\* year, and hold a value in column c
InMonth(w, m, c) ==
    {r \in Rows(w) : MonthOf(w.index[r]) = m /\ w.data[r][c] # NaN}

\* v is the average of column c of w over month m, NaN when the month holds
\* no value
AverageIs(v, w, m, c) ==
    IF InMonth(w, m, c) = {} THEN v = NaN
    ELSE v # NaN /\ v * Cardinality(InMonth(w, m, c)) = Total(w, InMonth(w, m, c), c)

\* the pivoted table MonthlyMean averages: its argument, or the wide table
\* of its tidy argument
Averaged == IF is_tidy(arg) THEN tidy_to_wide(arg).df ELSE arg

\* a flat result lists the months that hold a value, in water-year order,
\* each with the average of its series
FlatMeans(w, df) ==
    LET label(i) == SubSeq(df.data[i], 2, Len(df.cols) - 1)
        place(i) == PlaceInWaterYear(df.data[i][1])
        value(i) == df.data[i][Len(df.cols)]
    IN  /\ \A i \in Rows(df) :
             /\ \E c \in Cols(w) :
                  /\ w.cols[c] = label(i)
                  /\ AverageIs(value(i), w, CalendarMonth(place(i)), c)
             /\ i > 1 => place(i - 1) <= place(i)
        /\ \A k \in 1..12 : \A c \in Cols(w) :
             InMonth(w, CalendarMonth(k), c) # {}
                => \E i \in Rows(df) : place(i) = k /\ label(i) = w.cols[c]

\* C17: MonthlyMean groups the values by calendar month, whatever the year,
\* and averages them per series; the rows of its wide result are in the
\* order Oct, Nov, Dec, Jan, ..., Sep whatever months the input holds (a tidy
\* result lists the same averages in the same order).
C17_MonthlyMeanWaterOrder ==
    (op = "MonthlyMean" /\ status = "ok") =>
        IF is_tidy(arg) THEN FlatMeans(Averaged, cur)
        ELSE /\ Len(cur.index) = 12
             /\ \A k \in 1..12 :
                  /\ PlaceInWaterYear(cur.index[k]) = k
                  /\ \A c \in Cols(arg) :
                       AverageIs(cur.data[k][c], arg, CalendarMonth(k), c)
             /\ cur.cols = arg.cols

\* MonthlyMean returned the means of a wide table that holds one month in
\* several years with different values
C17_Witness ==
    /\ op = "MonthlyMean" /\ status = "ok" /\ is_wide(arg)
    /\ \E r1, r2 \in Rows(arg) :
         /\ r1 # r2 /\ MonthOf(arg.index[r1]) = MonthOf(arg.index[r2])
         /\ arg.data[r1][1] # NaN /\ arg.data[r2][1] # NaN
         /\ arg.data[r1][1] # arg.data[r2][1]


(***************************************************************************)
(* Exceedance probabilities                                                *)
(***************************************************************************)
\* the pivoted table MonthlyExceedence ranks: its argument, or the wide
\* table of its tidy argument
Ranked == IF is_tidy(arg) THEN tidy_to_wide(arg).df ELSE arg

\* the rows of column c of w that hold a value
Held(w, c) == {r \in Rows(w) : w.data[r][c] # NaN}

\* the rows that are ranked before row r in column c: a larger value, or the
\* same value earlier in the table
Before(w, c, r) ==
    {q \in Held(w, c) :
        \/ w.data[q][c] > w.data[r][c]
        \/ w.data[q][c] = w.data[r][c] /\ q < r}

\* p is the probability rank / (N + 1) of row r of column c
IsProbability(p, w, c, r) ==
    p * (Cardinality(Held(w, c)) + 1) = (Cardinality(Before(w, c, r)) + 1) * ProbScale

\* the result holds value v of column c at probability p
HoldsAt(df, w, c, p, v) ==
    IF df.ikind = "range"
    THEN \E i \in Rows(df) : df.data[i] = <<p>> \o w.cols[c] \o <<v>>
    ELSE \E k \in Rows(df) : df.index[k] = p /\ df.data[k][c] = v

\* the probabilities of the result
Probabilities(df) ==
    IF df.ikind = "range" THEN {df.data[i][1] : i \in Rows(df)}
    ELSE Range(df.index)

\* the probability of the result that is rank / (N + 1) for row r of column
\* c, 0 when the result has none
ProbabilityOf(df, w, c, r) ==
    LET fit == {p \in Probabilities(df) \ {NaN} : IsProbability(p, w, c, r)}
    IN  IF fit = {} THEN 0 ELSE CHOOSE p \in fit : TRUE

\* C18: MonthlyExceedence ranks the values of each series that are not
\* missing in descending order, equal values in order of appearance, and
\* the value of rank r out of N gets probability r / (N + 1); for N distinct
\* values the N probabilities are distinct, strictly between 0 and 1, and
\* larger for smaller values.
C18_RankOverCountPlusOne ==
    (op = "MonthlyExceedence" /\ status = "ok") =>
        LET w == Ranked
        IN  \A c \in Cols(w) :
                LET P == [r \in Held(w, c) |-> ProbabilityOf(cur, w, c, r)]
                IN  \A r \in Held(w, c) :
                        /\ P[r] > 0 /\ P[r] < ProbScale
                        /\ HoldsAt(cur, w, c, P[r], w.data[r][c])
                        /\ \A q \in Held(w, c) \ {r} :
                             /\ P[q] # P[r]
                             /\ w.data[q][c] < w.data[r][c] => P[q] > P[r]

\* MonthlyExceedence returned for a table with a series of at least three
\* values of which two are equal, and another series
C18_Witness ==
    /\ op = "MonthlyExceedence" /\ status = "ok"
    /\ LET w == Ranked
       IN  /\ Len(w.cols) >= 2
           /\ Cardinality(Held(w, 1)) >= 3
           /\ \E q, r \in Held(w, 1) : q # r /\ w.data[q][1] = w.data[r][1]


(***************************************************************************)
(* The caller's table                                                      *)
(***************************************************************************)
\* the same columns, index and values
SameTable(a, b) ==
    /\ a.names = b.names /\ a.cols = b.cols
    /\ a.iname = b.iname /\ a.ikind = b.ikind
    /\ a.index = b.index /\ a.data = b.data

TableOps ==
    {"tidy_to_wide", "wide_to_tidy", "tidy_to_condense", "condense_to_tidy",
     "cs.tidy", "cs.wide", "cs.condense",
     "AggregateAnnual", "MonthlyMean", "MonthlyExceedence"}

\* C13: after a transform, an accessor conversion, AggregateAnnual,
\* MonthlyMean or MonthlyExceedence, the caller's table has the columns,
\* index and values it had before the call, whether the call returned or
\* raised.
C13_ArgumentUntouched ==
    op \in TableOps => SameTable(held, arg)

\* tidy_to_wide returned a new table, and its argument, which its in-place
\* steps would have re-indexed, is as it was
C13_Witness ==
    /\ op = "tidy_to_wide" /\ status = "ok"
    /\ ~SameTable(cur, arg)
    /\ ~SameTable(Worked_tidy_to_wide(arg), arg)
    /\ SameTable(held, arg)


(***************************************************************************)
(* Values and cells                                                        *)
(***************************************************************************)
\* the row of the flat table that holds cell (r, c) of the pivoted table w:
\* stacking lists the cells row by row
StackedAt(w, r, c) == (r - 1) * Len(w.cols) + c

\* C19: wide_to_tidy and condense_to_tidy preserve every value: each cell of
\* the input is in the tidy output at its timestamp with the same value, and
\* only the cells that were missing are missing in the output.
C19_ValuesPreserved ==
    (op \in {"wide_to_tidy", "condense_to_tidy"} /\ status = "ok") =>
        /\ Len(cur.data) = Len(arg.data) * Len(arg.cols)
        /\ \A r \in Rows(arg) : \A c \in Cols(arg) :
             /\ Cell(cur, StackedAt(arg, r, c), S("DateTime")) = arg.index[r]
             /\ Cell(cur, StackedAt(arg, r, c), S("Value")) = arg.data[r][c]


\* the cells of a pivoted table that hold a value
Filled(w) == {<<r, c>> \in Rows(w) \X Cols(w) : w.data[r][c] # NaN}

\* tidy_to_wide called on a valid tidy table of values whose Pathnames have
\* eight segments, with at least three timestamps a month apart
PivotsTidy ==
    /\ op = "tidy_to_wide" /\ is_tidy(arg)
    /\ MonthlySpaced(SortSet(Range(Column(arg, S("DateTime")))))
    /\ \A i \in Rows(arg) :
         /\ Cell(arg, i, S("Value")) # NaN
         /\ Len(SplitOn(Cell(arg, i, S("Pathname")), "/")) = 8

\* C20: tidy_to_wide never hits a pivot collision on a table that satisfies
\* is_tidy: no two rows map to the same cell, every row fills one cell, and
\* the column labels of the result are unique, also for keys that differ
\* only in a reserved slot of the Pathname.
C20_NoPivotCollision ==
    PivotsTidy =>
        /\ status = "ok"
        /\ IsUnique(cur.cols)
        /\ Cardinality(Filled(cur)) = Len(arg.data)


(***************************************************************************)
(* The labels of a condense table                                          *)
(***************************************************************************)
\* the segment of the Pathname that holds a part
SlotOf(part) ==
    CHOOSE k \in 1..Len(path_split) : path_split[k] = part

\* the values a part takes in the rows of a tidy table
ValuesOf(df, part) ==
    {SplitOn(Cell(df, i, S("Pathname")), "/")[SlotOf(part)] : i \in Rows(df)}

\* the parts of the key that vary over the rows
Varying(df) ==
    {part \in {S("Part A"), S("Part C"), S("Part E"), S("Part F")} :
        Cardinality(ValuesOf(df, part)) > 1}

\* C21: tidy_to_condense drops from the column labels exactly the elidable
\* parts that are constant over the rows and keeps those that vary; when
\* all are constant the labels are Part B and Units & Type, plus Study if
\* the input has a Study column.
C21_ConstantPartsDropped ==
    (op = "tidy_to_condense" /\ status = "ok" /\ CanonicalKeys(arg)) =>
        Range(cur.names)
          = {S("Part B"), S("Units & Type")} \cup Varying(arg)
              \cup (IF HasCol(arg, S("Study")) THEN {S("Study")} ELSE {})

(***************************************************************************)
(* Conversions between the two pivoted formats                             *)
(***************************************************************************)
\* the outcome of f after g: g's failure, or f applied to g's table
SameOutcome(exp) ==
    /\ status = exp.status
    /\ status = "ok" => SameTable(cur, exp.df)

ViaTidy_condense(df) ==
    LET t == wide_to_tidy(df)
    IN  IF t.status # "ok" THEN t ELSE tidy_to_condense(t.df)

ViaTidy_wide(df, k) ==
    LET t == condense_to_tidy(df, k.a, k.c, k.f)
    IN  IF t.status # "ok" THEN t ELSE tidy_to_wide(t.df)

\* C22: the accessor's condense() on a wide table has the outcome of
\* wide_to_tidy followed by tidy_to_condense, and wide() on a condense table
\* has the outcome of condense_to_tidy (with the overrides given) followed by
\* tidy_to_wide.
C22_PivotedViaTidy ==
    /\ (op = "cs.condense" /\ is_wide(arg))
          => SameOutcome(ViaTidy_condense(arg))
    /\ (op = "cs.wide" /\ is_condense(arg))
          => SameOutcome(ViaTidy_wide(arg, kw))

(***************************************************************************)
(* Tables without rows                                                     *)
(***************************************************************************)
\* the predicate of the format a transform produces
TargetOf(name, df) ==
    IF name = "tidy_to_wide" THEN is_wide(df)
    ELSE IF name = "tidy_to_condense" THEN is_condense(df)
    ELSE is_tidy(df)

\* C23: a transform called on a table that its validator accepts and that has
\* no rows returns, without raising, a table with no rows that satisfies the
\* predicate of the target format.
C23_EmptyStaysEmpty ==
    (op \in Transforms /\ GateOf(op, arg) /\ arg.data = <<>>)
        => (status = "ok" /\ cur.data = <<>> /\ TargetOf(op, cur))

(***************************************************************************)
(* The annual value of a series                                            *)
(***************************************************************************)
\* a row of a flat table without its time and its value
SeriesOf(df, row) ==
    [j \in 1..Len(row) |->
        IF df.cols[j][1] \in {S("DateTime"), S("Water Year"), S("Value")}
        THEN 0 ELSE row[j]]

\* the rows of the argument that belong to the series and the water year of
\* row k of the annual result, the water year ending in month eom
YearRows(k, eom) ==
    {i \in Rows(arg) :
        /\ SeriesOf(arg, arg.data[i]) = SeriesOf(cur, cur.data[k])
        /\ YearEnding(Cell(arg, i, S("DateTime")), eom)
             = Cell(cur, k, S("Water Year"))}

\* the rows of G that hold a value
Valued(G) == {i \in G : Cell(arg, i, S("Value")) # NaN}

RECURSIVE ValueTotal(_)
ValueTotal(G) ==
    IF G = {} THEN 0
    ELSE LET i == CHOOSE x \in G : TRUE
         IN  Cell(arg, i, S("Value")) + ValueTotal(G \ {i})

\* v is the mean of the values of G, NaN when G holds none
MeanIs(v, G) ==
    IF Valued(G) = {} THEN v = NaN
    ELSE v # NaN /\ v * Cardinality(Valued(G)) = ValueTotal(Valued(G))

\* v is the observation of month eom among G, and G holds one only
LastIs(v, G, eom) ==
    \E i \in G :
        /\ MonthOf(Cell(arg, i, S("DateTime"))) = eom
        /\ Cell(arg, i, S("Value")) = v
        /\ \A j \in G : MonthOf(Cell(arg, j, S("DateTime"))) = eom => j = i

\* C24: for a tidy table, each row of the annual result holds, for its series
\* and water year, the mean of the year's values when the Data Type is
\* PER-AVER, their sum when it is PER-CUM, and the one observation of the
\* month eom when it is INST-VAL (missing values are left out of mean and
\* sum).
C24_ReducedByDataType ==
    (AnnualOfTidy /\ CanonicalKeys(arg)) =>
        \A k \in Rows(cur) :
            LET d == Cell(cur, k, S("Data Type"))
                v == Cell(cur, k, S("Value"))
                G == YearRows(k, kw.eom)
            IN  /\ d = S("PER-AVER") => MeanIs(v, G)
                /\ d = S("PER-CUM") => v = ValueTotal(Valued(G))
                /\ d = S("INST-VAL") => LastIs(v, G, kw.eom)

(***************************************************************************)
(* Exceedance as a re-indexing                                             *)
(***************************************************************************)
\* the pivoted table whose values the exceedance statistic re-indexes: the
\* ranked table itself, or its annual aggregation
Reindexed ==
    IF op = "AnnualExceedence" THEN AggregateAnnual(Ranked, kw.eom).df
    ELSE Ranked

\* the values column c of w holds
ValuesIn(w, c) == {w.data[r][c] : r \in Held(w, c)}

\* every series that holds a value has, at every probability of the result,
\* one of its own values
OwnValuesOnly(df, w) ==
    IF df.ikind = "range"
    THEN /\ \A i \in Rows(df) :
              \E c \in Cols(w) :
                  /\ SubSeq(df.data[i], 2, Len(df.cols) - 1) = w.cols[c]
                  /\ df.data[i][Len(df.cols)] \in ValuesIn(w, c)
         /\ \A c \in Cols(w) : \A p \in Probabilities(df) :
              Held(w, c) # {} =>
                  \E i \in Rows(df) :
                      /\ df.data[i][1] = p
                      /\ SubSeq(df.data[i], 2, Len(df.cols) - 1) = w.cols[c]
    ELSE /\ df.cols = w.cols
         /\ \A c \in Cols(w) : \A k \in Rows(df) :
              Held(w, c) # {} => df.data[k][c] \in ValuesIn(w, c)

\* C25: in the result of MonthlyExceedence and AnnualExceedence all series
\* share one probability axis, every cell of a series is one of the values
\* the series held before, and every value the series held is still found at
\* its own probability rank / (N + 1).
C25_ReindexedNotResampled ==
    (op \in {"MonthlyExceedence", "AnnualExceedence"} /\ status = "ok") =>
        \E w \in {Reindexed} :
            /\ OwnValuesOnly(cur, w)
            /\ \A c \in Cols(w) : \A r \in Held(w, c) :
                 \E p \in Probabilities(cur) \ {NaN} :
                     /\ IsProbability(p, w, c, r)
                     /\ HoldsAt(cur, w, c, p, w.data[r][c])

\* AnnualExceedence returned for two series of which one holds fewer values
\* than the other, so that each has cells at probabilities of the other only
C25_Witness ==
    /\ op = "AnnualExceedence" /\ status = "ok"
    /\ \E w \in {Reindexed} :
          /\ Len(w.cols) >= 2
          /\ Cardinality(Held(w, 1)) # Cardinality(Held(w, 2))
          /\ Held(w, 1) # {} /\ Held(w, 2) # {}

(***************************************************************************)
(* Overrides and the key parts a table holds                               *)
(***************************************************************************)
OverrideParts == {S("Part A"), S("Part C"), S("Part F")}

\* the segment of a Pathname that holds the part
PartAt(path, part) == SplitOn(path, "/")[SlotOf(part)]

\* the labels the columns of a pivoted table carry at the level named part
LabelsAt(df, part) ==
    {df.cols[j][CHOOSE k \in 1..Len(df.names) : df.names[k] = part] :
        j \in Cols(df)}

\* the overrides without those given for a part the table holds
Needed(df, k) ==
    [a |-> IF S("Part A") \in LevelNames(df) THEN None ELSE k.a,
     c |-> IF S("Part C") \in LevelNames(df) THEN None ELSE k.c,
     f |-> IF S("Part F") \in LevelNames(df) THEN None ELSE k.f]

\* every Pathname of the result takes the part from the labels of the
\* argument when it has that level, and from the override otherwise
FromLabels(part) ==
    \A i \in Rows(cur) :
        IF part \in LevelNames(arg)
        THEN PartAt(Cell(cur, i, S("Pathname")), part) \in LabelsAt(arg, part)
        ELSE PartAt(Cell(cur, i, S("Pathname")), part) = OverrideOf(kw, part)

\* C26: an override a, c or f is used only for a key part the table lacks.
\* join_pathname keeps the values of a part column that is present, row by
\* row; condense_to_tidy has the outcome it has without the overrides given
\* for levels that are present; tidy() on a wide table has the outcome of
\* wide_to_tidy and wide() returns the table, whatever overrides are passed.
C26_OverrideOnlyForAbsent ==
    /\ (op = "join_pathname" /\ status = "ok") =>
          \A part \in OverrideParts : \A i \in Rows(cur) :
              PartAt(Cell(cur, i, S("Pathname")), part)
                = (IF HasCol(arg, part) THEN Cell(arg, i, part)
                   ELSE OverrideOf(kw, part))
    /\ (op = "condense_to_tidy" /\ is_condense(arg)) =>
          /\ \E k \in {Needed(arg, kw)} :
                SameOutcome(condense_to_tidy(arg, k.a, k.c, k.f))
          /\ status = "ok" => \A part \in OverrideParts : FromLabels(part)
    /\ (op = "cs.tidy" /\ is_wide(arg)) =>
          /\ SameOutcome(wide_to_tidy(arg))
          /\ status = "ok" => \A part \in OverrideParts : FromLabels(part)
    /\ (op = "cs.wide" /\ is_wide(arg)) =>
          (status = "ok" /\ SameTable(cur, arg))

\* as in tests/test_ioHEC5Q.py: wide(), then tidy(a='CalSim3', f='JAS_dev')
\* on the wide table, whose Pathnames keep the parts of the labels
C26_Witness ==
    /\ op = "cs.tidy" /\ is_wide(arg) /\ status = "ok"
    /\ pop = "cs.wide"
    /\ kw.a = S("CalSim3") /\ kw.f = S("JAS_dev")
    /\ cur.data # <<>>

(***************************************************************************)
(* The series of an annual aggregation                                     *)
(***************************************************************************)
KnownTypes == {S("PER-AVER"), S("PER-CUM"), S("INST-VAL")}

\* the Data Type of a column of a wide or condense table
TypeOfColumn(df, j) ==
    IF S("Data Type") \in LevelNames(df)
    THEN df.cols[j][CHOOSE k \in 1..Len(df.names) : df.names[k] = S("Data Type")]
    ELSE LET words == SplitWhite(df.cols[j][CHOOSE k \in 1..Len(df.names) :
                                              df.names[k] = S("Units & Type")])
         IN  words[Len(words)]

\* the pivoted table without the columns of another Data Type
KnownOnly(df) ==
    LET kept == SelectSeq(Positions(Len(df.cols)),
                          LAMBDA j : TypeOfColumn(df, j) \in KnownTypes)
    IN  [df EXCEPT !.cols = [k \in 1..Len(kept) |-> df.cols[kept[k]]],
                   !.data = [r \in 1..Len(df.data) |->
                               [k \in 1..Len(kept) |-> df.data[r][kept[k]]]]]

\* a wide table, or a condense table that names the Data Type of its columns
TypedPivot(df) ==
    \/ is_wide(df)
    \/ is_condense(df) /\ ~is_tidy(df) /\ S("Units & Type") \in LevelNames(df)

\* C27: AggregateAnnual loses no series. Every series of a tidy table that
\* holds a value has a row in the annual result, whatever its Data Type; and
\* a wide or condense table for which the call returns when its columns of
\* another Data Type than PER-AVER, PER-CUM, INST-VAL are left out is one for
\* which it returns with them.
C27_NoSeriesLost ==
    /\ (AnnualOfTidy /\ CanonicalKeys(arg)) =>
          \A i \in Rows(arg) :
              Cell(arg, i, S("Value")) # NaN =>
                  \E k \in Rows(cur) :
                      SeriesOf(cur, cur.data[k]) = SeriesOf(arg, arg.data[i])
    /\ (/\ op = "AggregateAnnual" /\ TypedPivot(arg)
        /\ KnownOnly(arg).cols # <<>>
        /\ AggregateAnnual(KnownOnly(arg), kw.eom).status = "ok")
          => (status = "ok" /\ cur.cols = arg.cols)

(***************************************************************************)
(* Selection and conversion                                                *)
(***************************************************************************)
\* the columns of a pivoted table that meet a filter
Matching(df, b, match) ==
    {j \in Cols(df) :
        \E k \in 1..Len(b) :
            b_hit(df.cols[j][CHOOSE n \in 1..Len(df.names) :
                                df.names[n] = S("Part B")],
                  upper(b[k]), match)}

\* the two outcomes are the same error or the same table
Agree(x, y) ==
    /\ x.status = y.status
    /\ x.status = "ok" => SameTable(x.df, y.df)

\* C28: PartB commutes with tidy_to_wide: for a valid tidy table, filtering
\* the wide table gives what converting the filtered table gives; a filtered
\* wide or condense table holds each matching column once and is still wide
\* or condense; when nothing matches the whole table is returned.
C28_SelectionCommutes ==
    /\ (op = "PartB" /\ is_tidy(arg) /\ status = "ok") =>
          \E w \in {tidy_to_wide(arg)} :
              w.status = "ok" =>
                  Agree(PartB(w.df, kw.b, kw.match), tidy_to_wide(cur))
    /\ (op = "PartB" /\ ~is_tidy(arg) /\ status = "ok") =>
          /\ is_wide(arg) => is_wide(cur)
          /\ is_condense(arg) => is_condense(cur)
          /\ Matching(arg, kw.b, kw.match) = {} => SameTable(cur, arg)
          /\ Matching(arg, kw.b, kw.match) # {} =>
                \A j \in Matching(arg, kw.b, kw.match) :
                    Cardinality({k \in Cols(cur) : cur.cols[k] = arg.cols[j]})
                      = 1

(***************************************************************************)
(* Conversions to the format a table already has                           *)
(***************************************************************************)
\* the call returned its argument unchanged
ReturnedAsGiven == status = "ok" /\ SameTable(cur, arg)

\* C29: tidy() on a table that is_tidy accepts, wide() on one that is_wide
\* accepts and condense() on one that is_condense accepts return the table
\* unchanged; for a table that none of the three accepts the accessor raises
\* its TypeError before any conversion method runs.
C29_Idempotent ==
    /\ (op = "cs.tidy" /\ is_tidy(arg)) => ReturnedAsGiven
    /\ (op = "cs.wide" /\ is_wide(arg)) => ReturnedAsGiven
    /\ (op = "cs.condense" /\ is_condense(arg)) => ReturnedAsGiven
    /\ (op \in AccessorOps /\ ~cs_validate(arg))
          => (status = "TypeError" /\ cur = arg)

====
